---------------------------- MODULE Spec2Model ----------------------------
(***************************************************************************)
(* SEROX AI backend: the /predict request handler (index.js, versions 5.0  *)
(* and 6.0), the prediction core ultraAIPredict (main.js), the state and   *)
(* evolution manager (state.js), the primary weighted model                *)
(* (primary_model.js), the advisory runner (advisory_models.js) and the    *)
(* sentiment simulator (market_sentiment.js).                              *)
(*                                                                         *)
(* Units.  JavaScript numbers that are fractions are kept as scaled        *)
(* integers: weights and feature values in hundredths (1.5 is 150), the    *)
(* bad-trend threshold and accuracies in thousandths (0.45 is 450).        *)
(* Indicator values that are real-valued functions of the whole window     *)
(* (RSI, EMA, MACD, Bollinger position) are inputs of a cycle, drawn from  *)
(* IndicatorChoices: they are not recomputed from the window.              *)
(***************************************************************************)
EXTENDS Integers, Sequences, FiniteSets, TLC

(***************************************************************************)
(* Program constants.                                                      *)
(***************************************************************************)
MIN_HISTORY == 100
MAX_HISTORY_LENGTH == 150
BAD_TREND_WINDOW == 30
MinResolved == 15
WinStreak == 3
EvolveEvery == 5
TradeWindow == 50
MinTrades == 20
learningRate == 1
WeightMin == 10
WeightMax == 500
ThresholdMin == 420
ThresholdMax == 480
InitialThreshold == 450
TARGET_ACCURACY == 540
EVOLUTION_RATE == 5
AccuracyBand == 20
MaxDecays == 28

(***************************************************************************)
(* Bounds of the exploration.                                              *)
(***************************************************************************)
MaxFree == 2
MaxRequests == 153

Absent == -1
NoClass == "none"
Classes == {"BIG", "SMALL"}
Statuses == {"Pending", "Win", "Loss", "Cooldown"}

FeatureNames ==
    {"rsi_strength", "rsi_is_overbought", "rsi_is_oversold", "macd_hist",
     "trend_strength_score", "bollinger_pct_reversal", "last_move"}

WeightNames ==
    FeatureNames \cup
    {"volatility_expansion", "market_sentiment", "stochastic_k", "rsi_trend_strength"}

(***************************************************************************)
(* utils.js                                                                *)
(***************************************************************************)
getBigSmallFromNumber(number) ==
    IF number = Absent THEN NoClass
    ELSE IF number >= 0 /\ number <= 4 THEN "SMALL"
    ELSE IF number >= 5 /\ number <= 9 THEN "BIG"
    ELSE NoClass

Min2(a, b) == IF a < b THEN a ELSE b

Max2(a, b) == IF a > b THEN a ELSE b

Abs(x) == IF x < 0 THEN -x ELSE x

\* history.slice(0, n)
Slice(s, n) == SubSeq(s, 1, Min2(n, Len(s)))

(***************************************************************************)
(* state.js                                                                *)
(***************************************************************************)
InitialSystemState ==
    [MIN_HISTORY |-> MIN_HISTORY,
     BAD_TREND_THRESHOLD |-> InitialThreshold,
     TARGET_ACCURACY |-> TARGET_ACCURACY,
     EVOLUTION_RATE |-> EVOLUTION_RATE,
     DEFENSIVE_MODE_ACTIVE |-> FALSE]

InitialWeights ==
    [k \in WeightNames |->
        CASE k = "rsi_strength" -> 150
          [] k = "rsi_is_overbought" -> -200
          [] k = "rsi_is_oversold" -> 200
          [] k = "macd_hist" -> 250
          [] k = "trend_strength_score" -> 300
          [] k = "bollinger_pct_reversal" -> -250
          [] k = "last_move" -> 50
          [] k = "volatility_expansion" -> 120
          [] k = "market_sentiment" -> 100
          [] k = "stochastic_k" -> -180
          [] OTHER -> 100]

\* A variant that moves the threshold without clamping it.
evolveSystemParametersUnclamped(sys, globalAccuracy) ==
    IF globalAccuracy < sys.TARGET_ACCURACY - AccuracyBand
    THEN [sys EXCEPT !.BAD_TREND_THRESHOLD =
              sys.BAD_TREND_THRESHOLD + sys.EVOLUTION_RATE]
    ELSE IF globalAccuracy > sys.TARGET_ACCURACY + AccuracyBand
    THEN [sys EXCEPT !.BAD_TREND_THRESHOLD =
              sys.BAD_TREND_THRESHOLD - sys.EVOLUTION_RATE]
    ELSE sys

\* A variant that also moves the threshold at the two ends of the band.
evolveSystemParametersAtBand(sys, globalAccuracy) ==
    IF globalAccuracy <= sys.TARGET_ACCURACY - AccuracyBand
    THEN [sys EXCEPT !.BAD_TREND_THRESHOLD =
              Min2(ThresholdMax, sys.BAD_TREND_THRESHOLD + sys.EVOLUTION_RATE)]
    ELSE IF globalAccuracy >= sys.TARGET_ACCURACY + AccuracyBand
    THEN [sys EXCEPT !.BAD_TREND_THRESHOLD =
              Max2(ThresholdMin, sys.BAD_TREND_THRESHOLD - sys.EVOLUTION_RATE)]
    ELSE sys

evolveSystemParameters(sys, globalAccuracy) ==
    IF globalAccuracy < sys.TARGET_ACCURACY - AccuracyBand
    THEN [sys EXCEPT !.BAD_TREND_THRESHOLD =
              Min2(ThresholdMax, sys.BAD_TREND_THRESHOLD + sys.EVOLUTION_RATE)]
    ELSE IF globalAccuracy > sys.TARGET_ACCURACY + AccuracyBand
    THEN [sys EXCEPT !.BAD_TREND_THRESHOLD =
              Max2(ThresholdMin, sys.BAD_TREND_THRESHOLD - sys.EVOLUTION_RATE)]
    ELSE sys

\* history.filter(p => p.mlFeatures && p.status).slice(0, 50)
recentTrades(history) ==
    LET qualifies(p) == p.mlFeatures.present /\ p.status # ""
    IN  Slice(SelectSeq(history, qualifies), TradeWindow)

\* wasBigPrediction ? featureImpactIsBig : !featureImpactIsBig
wasFeatureAlignedWithPrediction(weights, trade, key) ==
    IF trade.lastPredictedOutcome = "BIG"
    THEN trade.mlFeatures.values[key] * weights[key] > 0
    ELSE ~(trade.mlFeatures.values[key] * weights[key] > 0)

\* The adjustment one trade contributes to the weight of feature key.
tradeAdjustment(weights, trade, key) ==
    IF key \notin DOMAIN trade.mlFeatures.values THEN 0
    ELSE IF ~wasFeatureAlignedWithPrediction(weights, trade, key) THEN 0
    ELSE IF trade.status = "Win" THEN learningRate
    ELSE -learningRate

RECURSIVE sumAdjustments(_, _, _)
sumAdjustments(weights, trades, key) ==
    IF trades = <<>> THEN 0
    ELSE tradeAdjustment(weights, Head(trades), key)
         + sumAdjustments(weights, Tail(trades), key)

\* A variant without the upper end.
clampWeightFromBelow(w) == Max2(WeightMin, w)

\* Math.max(0.1, Math.min(5.0, w))
clampWeight(w) == Max2(WeightMin, Min2(WeightMax, w))

\* The pass over the qualifying trades, once they are selected.
evolveFrom(weights, trades) ==
    IF Len(trades) < MinTrades THEN weights
    ELSE [key \in DOMAIN weights |->
             clampWeight(weights[key] + sumAdjustments(weights, trades, key))]

evolveMLWeights(weights, history) == evolveFrom(weights, recentTrades(history))

\* recentHistory.filter(p => p.status === status).length
countStatus(recentHistory, status) ==
    Cardinality({i \in 1..Len(recentHistory) : recentHistory[i].status = status})

\* A variant that asks for more than 15 resolved records.
badAccuracyAboveMinimum(sys, wins, losses) ==
    IF wins + losses <= MinResolved THEN FALSE
    ELSE wins * 1000 < sys.BAD_TREND_THRESHOLD * (wins + losses)

\* wins + losses >= 15 and wins / (wins + losses) < BAD_TREND_THRESHOLD
badAccuracy(sys, wins, losses) ==
    IF wins + losses < MinResolved THEN FALSE
    ELSE wins * 1000 < sys.BAD_TREND_THRESHOLD * (wins + losses)

detectBadTrend(sys, history) ==
    IF Len(history) < BAD_TREND_WINDOW THEN FALSE
    ELSE badAccuracy(sys,
                     countStatus(Slice(history, BAD_TREND_WINDOW), "Win"),
                     countStatus(Slice(history, BAD_TREND_WINDOW), "Loss"))

\* if (detectBadTrend(history)) DEFENSIVE_MODE_ACTIVE = true
enterDefensive(sys, history) ==
    IF detectBadTrend(sys, history)
    THEN [sys EXCEPT !.DEFENSIVE_MODE_ACTIVE = TRUE]
    ELSE sys

\* A variant that is content with the 2 most recent statuses.
lastTwoAllWin(history) ==
    /\ Len(Slice(history, WinStreak - 1)) = WinStreak - 1
    /\ \A i \in 1..(WinStreak - 1) : history[i].status = "Win"

\* last3.length === 3 && last3.every(s => s === 'Win')
lastThreeAllWin(history) ==
    /\ Len(Slice(history, WinStreak)) = WinStreak
    /\ \A i \in 1..WinStreak : history[i].status = "Win"

\* if (DEFENSIVE_MODE_ACTIVE && last 3 all Win) DEFENSIVE_MODE_ACTIVE = false
leaveDefensive(sys, history) ==
    IF sys.DEFENSIVE_MODE_ACTIVE /\ lastThreeAllWin(history)
    THEN [sys EXCEPT !.DEFENSIVE_MODE_ACTIVE = FALSE]
    ELSE sys

manageDefensiveMode(sys, history) ==
    leaveDefensive(enterDefensive(sys, history), history)

(***************************************************************************)
(* primary_model.js                                                        *)
(***************************************************************************)
\* Number(x) of an x that is not numeric
NotANumber == -3

\* history.map(e => e.actualNumber).filter(n => !isNaN(n))
numbersOf(history) ==
    LET isNumber(n) == n # NotANumber
    IN  SelectSeq([i \in 1..Len(history) |-> history[i].actualNumber], isNumber)

\* The indicator values of a cycle: rsi in 0..100, the MACD and signal
\* lines and the three EMAs in hundredths, the Bollinger position in
\* hundredths, and the vote of the RSI-trend advisor.
IndicatorChoices ==
    { [rsi |-> 80, macdLine |-> 30, signalLine |-> 10, shortMA |-> 700,
       mediumMA |-> 600, longMA |-> 500, bollingerPct |-> 50, rsiTrend |-> "BIG"],
      [rsi |-> 20, macdLine |-> -30, signalLine |-> -10, shortMA |-> 300,
       mediumMA |-> 400, longMA |-> 500, bollingerPct |-> 50, rsiTrend |-> "SMALL"],
      [rsi |-> 50, macdLine |-> 0, signalLine |-> 0, shortMA |-> 500,
       mediumMA |-> 500, longMA |-> 500, bollingerPct |-> 50, rsiTrend |-> NoClass] }

getTrendContext(history, ind) ==
    IF Len(numbersOf(history)) < 20 THEN [strength |-> "UNKNOWN", direction |-> "NONE"]
    ELSE IF ind.shortMA > ind.mediumMA /\ ind.mediumMA > ind.longMA
    THEN [strength |-> "STRONG", direction |-> "BIG"]
    ELSE IF ind.shortMA < ind.mediumMA /\ ind.mediumMA < ind.longMA
    THEN [strength |-> "STRONG", direction |-> "SMALL"]
    ELSE [strength |-> "RANGING", direction |-> "NONE"]

\* The values calculateRSI(numbers, 14) can take on at least 15 numbers,
\* newest first: 100 when no change is a loss, 0 when none is a gain and
\* one is a loss, and a value strictly between otherwise.
rsiValuesOf(numbers) ==
    IF \A i \in 1..(Len(numbers) - 1) : numbers[i] >= numbers[i + 1] THEN {100}
    ELSE IF \A i \in 1..(Len(numbers) - 1) : numbers[i] <= numbers[i + 1] THEN {0}
    ELSE {1, 29, 30, 50, 70, 71, 99}

NoFeatures == [present |-> FALSE, values |-> [k \in FeatureNames |-> 0]]

\* A JavaScript number used as a condition: 0, NaN and undefined are false.
truthy(x) == x # 0 /\ x # Absent /\ x # NotANumber

\* trendContext.strength === 'STRONG' ? (direction.includes('BIG') ? 1 : -1) : 0
trendScore(trendContext) ==
    IF trendContext.strength = "STRONG"
    THEN (IF trendContext.direction = "BIG" THEN 100 ELSE -100)
    ELSE 0

\* The feature object, once the numbers are extracted.
featureValues(numbers, trendContext, ind) ==
    [k \in FeatureNames |->
       CASE k = "rsi_strength" ->
              IF truthy(ind.rsi) THEN (ind.rsi - 50) * 2 ELSE 0
         [] k = "rsi_is_overbought" ->
              IF truthy(ind.rsi) /\ ind.rsi > 70 THEN 100 ELSE 0
         [] k = "rsi_is_oversold" ->
              IF truthy(ind.rsi) /\ ind.rsi < 30 THEN -100 ELSE 0
         [] k = "macd_hist" ->
              IF truthy(ind.macdLine) /\ truthy(ind.signalLine)
              THEN ind.macdLine - ind.signalLine ELSE 0
         [] k = "trend_strength_score" -> trendScore(trendContext)
         [] k = "bollinger_pct_reversal" ->
              IF ind.bollingerPct > 100 THEN ind.bollingerPct - 100
              ELSE IF ind.bollingerPct < 0 THEN ind.bollingerPct ELSE 0
         [] OTHER ->
              IF numbers[1] > numbers[2] THEN 100 ELSE -100]

createFeatureSetForML(sys, history, ind) ==
    IF Len(numbersOf(history)) < sys.MIN_HISTORY THEN NoFeatures
    ELSE [present |-> TRUE,
          values |-> featureValues(numbersOf(history), getTrendContext(history, ind), ind)]

\* What one feature adds to the BIG accumulator.
bigShare(weight, featureValue) ==
    IF weight > 0
    THEN (IF featureValue > 0 THEN featureValue * weight ELSE 0)
    ELSE (IF featureValue > 0 THEN 0 ELSE Abs(featureValue * Abs(weight)))

\* What one feature adds to the SMALL accumulator.
smallShare(weight, featureValue) ==
    IF weight > 0
    THEN (IF featureValue > 0 THEN 0 ELSE Abs(featureValue * weight))
    ELSE (IF featureValue > 0 THEN featureValue * Abs(weight) ELSE 0)

RECURSIVE SumOver(_, _)
SumOver(f, keys) ==
    IF keys = {} THEN 0
    ELSE LET k == CHOOSE x \in keys : TRUE
         IN  f[k] + SumOver(f, keys \ {k})

bigScoreOf(weights, values) ==
    SumOver([k \in DOMAIN values \cap DOMAIN weights |-> bigShare(weights[k], values[k])],
            DOMAIN values \cap DOMAIN weights)

smallScoreOf(weights, values) ==
    SumOver([k \in DOMAIN values \cap DOMAIN weights |-> smallShare(weights[k], values[k])],
            DOMAIN values \cap DOMAIN weights)

NoModel == [present |-> FALSE, prediction |-> NoClass, confNum |-> 0, confDen |-> 1]

\* The verdict on the two accumulators.
modelOf(bigScore, smallScore) ==
    IF bigScore + smallScore = 0 THEN NoModel
    ELSE [present |-> TRUE,
          prediction |-> IF bigScore > smallScore THEN "BIG" ELSE "SMALL",
          confNum |-> Abs(bigScore - smallScore),
          confDen |-> bigScore + smallScore]

analyzeUnifiedMLModel(weights, features) ==
    IF ~features.present THEN NoModel
    ELSE modelOf(bigScoreOf(weights, features.values),
                 smallScoreOf(weights, features.values))

(***************************************************************************)
(* advisory_models.js.  A vote is a class; NoClass is an abstention (null). *)
(***************************************************************************)
RECURSIVE SumSeq(_)
SumSeq(s) == IF s = <<>> THEN 0 ELSE Head(s) + SumSeq(Tail(s))

SumSquares(s) == SumSeq([i \in 1..Len(s) |-> s[i] * s[i]])

\* n * (n - 1) times the sample variance of s, n = Len(s): an integer.
ScaledVariance(s) == Len(s) * SumSquares(s) - SumSeq(s) * SumSeq(s)

MinOf(s) == CHOOSE x \in {s[i] : i \in 1..Len(s)} : \A j \in 1..Len(s) : x <= s[j]

MaxOf(s) == CHOOSE x \in {s[i] : i \in 1..Len(s)} : \A j \in 1..Len(s) : x >= s[j]

analyzeRSITrend(history, ind) ==
    IF Len(numbersOf(history)) < 14 + 9 THEN NoClass ELSE ind.rsiTrend

\* K = 100 * (currentPrice - lowestLow) / (highestHigh - lowestLow)
stochasticVote(currentPrice, lowestLow, highestHigh) ==
    IF highestHigh = lowestLow THEN NoClass
    ELSE IF 100 * (currentPrice - lowestLow) > 85 * (highestHigh - lowestLow)
    THEN "SMALL"
    ELSE IF 100 * (currentPrice - lowestLow) < 15 * (highestHigh - lowestLow)
    THEN "BIG"
    ELSE NoClass

analyzeStochastic(history) ==
    IF Len(numbersOf(history)) < 14 THEN NoClass
    ELSE stochasticVote(numbersOf(history)[1],
                        MinOf(Slice(numbersOf(history), 14)),
                        MaxOf(Slice(numbersOf(history), 14)))

\* The characters of the string a class is written as.
lettersOf(class) ==
    IF class = "BIG" THEN <<"B", "I", "G">>
    ELSE IF class = "SMALL" THEN <<"S", "M", "A", "L", "L">>
    ELSE <<>>

\* outcomes.join('')
RECURSIVE joinLetters(_)
joinLetters(outcomes) ==
    IF outcomes = <<>> THEN <<>>
    ELSE lettersOf(Head(outcomes)) \o joinLetters(Tail(outcomes))

Reverse(s) == [i \in 1..Len(s) |-> s[Len(s) + 1 - i]]

endsWith(sequence, pattern) ==
    /\ Len(pattern) <= Len(sequence)
    /\ SubSeq(sequence, Len(sequence) - Len(pattern) + 1, Len(sequence)) = pattern

PatternRules ==
    << [pattern |-> <<"B", "B", "B", "B">>, prediction |-> "BIG"],
       [pattern |-> <<"S", "S", "S", "S">>, prediction |-> "SMALL"],
       [pattern |-> <<"B", "B", "B", "B", "B">>, prediction |-> "SMALL"],
       [pattern |-> <<"S", "S", "S", "S", "S">>, prediction |-> "BIG"],
       [pattern |-> <<"B", "S", "B", "S">>, prediction |-> "BIG"],
       [pattern |-> <<"S", "B", "S", "B">>, prediction |-> "SMALL"],
       [pattern |-> <<"B", "B", "S", "B", "B">>, prediction |-> "BIG"],
       [pattern |-> <<"S", "S", "B", "S", "S">>, prediction |-> "SMALL"],
       [pattern |-> <<"B", "S", "B">>, prediction |-> "SMALL"],
       [pattern |-> <<"S", "B", "S">>, prediction |-> "BIG"] >>

\* The prediction of the first rule among matching, NoClass when none.
firstMatch(matching) ==
    IF matching = {} THEN NoClass
    ELSE PatternRules[CHOOSE r \in matching : \A q \in matching : r <= q].prediction

\* The rules whose pattern the string ends with.
matchingRules(sequence) ==
    {r \in 1..Len(PatternRules) : endsWith(sequence, PatternRules[r].pattern)}

\* history.map(p => getBigSmallFromNumber(p.actual)).slice(0, 10).reverse()
recentOutcomes(history) ==
    Reverse([i \in 1..Min2(10, Len(history)) |-> getBigSmallFromNumber(history[i].actual)])

analyzeColorPatterns(history) ==
    IF Len(recentOutcomes(history)) < 5 THEN NoClass
    ELSE firstMatch(matchingRules(joinLetters(recentOutcomes(history))))

\* recentVol > priorVol * 1.8 on the variances: both sides squared
breakoutVote(numbers, recentVariance, priorVariance) ==
    IF priorVariance = 0 THEN NoClass
    ELSE IF 100 * recentVariance > 324 * priorVariance
    THEN (IF numbers[1] > numbers[2] THEN "BIG" ELSE "SMALL")
    ELSE NoClass

analyzeVolatilityBreakout(history) ==
    IF Len(numbersOf(history)) < 40 THEN NoClass
    ELSE breakoutVote(numbersOf(history),
                      ScaledVariance(SubSeq(numbersOf(history), 1, 20)),
                      ScaledVariance(SubSeq(numbersOf(history), 21, 40)))

priceActionVote(numbers) ==
    IF numbers[1] > numbers[3] /\ numbers[2] > numbers[4] THEN "BIG"
    ELSE IF numbers[1] < numbers[3] /\ numbers[2] < numbers[4] THEN "SMALL"
    ELSE NoClass

analyzePriceAction(history) ==
    IF Len(numbersOf(history)) < 5 THEN NoClass
    ELSE priceActionVote(Slice(numbersOf(history), 5))

\* zScore = (currentPrice - sma) / stdDev against 1.5 and -1.5, with
\* deviation = 20 * (currentPrice - sma) and variance = 380 * stdDev^2;
\* 0 / 0 compares false.
reversionVote(deviation, variance) ==
    IF deviation > 0 /\ 19 * deviation * deviation > 45 * variance THEN "SMALL"
    ELSE IF deviation < 0 /\ 19 * deviation * deviation > 45 * variance THEN "BIG"
    ELSE NoClass

analyzeMeanReversion(history) ==
    IF Len(numbersOf(history)) < 20 THEN NoClass
    ELSE reversionVote(20 * numbersOf(history)[1] - SumSeq(Slice(numbersOf(history), 20)),
                       ScaledVariance(Slice(numbersOf(history), 20)))

\* models.filter(m => m !== null)
advisorySignalsOf(history, ind) ==
    LET voted(m) == m # NoClass
    IN  SelectSeq(<< analyzeRSITrend(history, ind),
                     analyzeStochastic(history),
                     analyzeColorPatterns(history),
                     analyzeVolatilityBreakout(history),
                     analyzePriceAction(history),
                     analyzeMeanReversion(history) >>, voted)

\* A variant whose score is 0 when no advisor votes.
consensusOfNoneAgainst(advisorySignals, agreeingModels, totalAdvisors) ==
    [advisorySignals |-> advisorySignals,
     consensusNum |-> IF totalAdvisors > 0 THEN agreeingModels ELSE 0,
     consensusDen |-> IF totalAdvisors > 0 THEN totalAdvisors ELSE 2,
     agreeingModels |-> agreeingModels,
     totalAdvisors |-> totalAdvisors]

\* consensusScore = consensusNum / consensusDen
consensusOf(advisorySignals, agreeingModels, totalAdvisors) ==
    [advisorySignals |-> advisorySignals,
     consensusNum |-> IF totalAdvisors > 0 THEN agreeingModels ELSE 1,
     consensusDen |-> IF totalAdvisors > 0 THEN totalAdvisors ELSE 2,
     agreeingModels |-> agreeingModels,
     totalAdvisors |-> totalAdvisors]

tally(advisorySignals, primaryPrediction) ==
    consensusOf(advisorySignals,
                Cardinality({i \in 1..Len(advisorySignals) :
                                advisorySignals[i] = primaryPrediction}),
                Len(advisorySignals))

runAdvisoryModels(history, ind, primaryPrediction) ==
    tally(advisorySignalsOf(history, ind), primaryPrediction)

(***************************************************************************)
(* market_sentiment.js.  An event is its polarity and the number of decays *)
(* it has gone through: impact = +-0.9^decays, which is above 0.05 exactly *)
(* up to MaxDecays decays.                                                 *)
(***************************************************************************)
\* newEvent: "none" when Math.random() >= NEWS_EVENT_PROBABILITY
NewsChoices == {"none", "PositiveNews", "NegativeNews"}

\* A variant that keeps an event for one more decay.
updateMarketSentimentKeeping(events, newEvent) ==
    LET decayed == [i \in 1..Len(events) |->
                       [events[i] EXCEPT !.decays = events[i].decays + 1]]
        significant(e) == e.decays <= MaxDecays + 1
        kept == SelectSeq(decayed, significant)
    IN  IF newEvent = "none" THEN kept
        ELSE Append(kept, [type |-> newEvent, decays |-> 0])

updateMarketSentiment(events, newEvent) ==
    LET decayed == [i \in 1..Len(events) |->
                       [events[i] EXCEPT !.decays = events[i].decays + 1]]
        significant(e) == e.decays <= MaxDecays
        kept == SelectSeq(decayed, significant)
    IN  IF newEvent = "none" THEN kept
        ELSE Append(kept, [type |-> newEvent, decays |-> 0])

\* 0.9^decays in millionths, rounded down at each decay.
RECURSIVE decayedImpact(_)
decayedImpact(decays) ==
    IF decays = 0 THEN 1000000 ELSE (decayedImpact(decays - 1) * 9) \div 10

\* event.impact in millionths
impactOf(event) ==
    IF event.type = "PositiveNews" THEN decayedImpact(event.decays)
    ELSE -decayedImpact(event.decays)

\* Math.max(-1, Math.min(1, totalImpact)) in millionths, 0 without events
getMarketSentimentFactor(events) ==
    IF Len(events) = 0 THEN 0
    ELSE Max2(-1000000,
              Min2(1000000, SumSeq([i \in 1..Len(events) |-> impactOf(events[i])])))

(***************************************************************************)
(* main.js                                                                 *)
(***************************************************************************)
NoConfidence == [num |-> 0, den |-> 0]

\* inMemorySharedStats = {}
EmptySharedStats ==
    [lastActualOutcome |-> Absent,
     lastPredictedOutcome |-> NoClass,
     lastConfidenceLevel |-> Absent,
     longTermGlobalAccuracy |-> Absent,
     finalDecision |-> NoClass,
     finalConfidence |-> NoConfidence,
     confidenceLevel |-> Absent,
     agreeingModels |-> Absent,
     totalAdvisors |-> Absent,
     systemHealth |-> "",
     advisorySignals |-> <<>>,
     mlFeatures |-> NoFeatures,
     status |-> ""]

\* The decision returned before the pipeline has run:
\* Math.random() > 0.5 ? "BIG" : "SMALL" is the input coin.
fallbackDecision(coin, level, health) ==
    [finalDecision |-> coin,
     finalConfidence |-> NoConfidence,
     confidenceLevel |-> level,
     agreeingModels |-> Absent,
     totalAdvisors |-> Absent,
     systemHealth |-> health,
     advisorySignals |-> <<>>]

\* A variant whose defensive factor is 0.8.
composeConfidenceMilder(primaryModel, advice, defensive) ==
    [num |-> primaryModel.confNum
               * (6 * advice.consensusDen + 4 * advice.consensusNum)
               * (IF defensive THEN 8 ELSE 10),
     den |-> primaryModel.confDen * advice.consensusDen * 100]

\* primaryModel.confidence * (0.6 + consensusScore * 0.4), times 0.7 in
\* defensive mode, as the fraction num / den.
composeConfidence(primaryModel, advice, defensive) ==
    [num |-> primaryModel.confNum
               * (6 * advice.consensusDen + 4 * advice.consensusNum)
               * (IF defensive THEN 7 ELSE 10),
     den |-> primaryModel.confDen * advice.consensusDen * 100]

\* (finalConfidence > 0.55) ? 1 : 0, forced to 0 in defensive mode
levelOf(finalConfidence, defensive) ==
    IF defensive THEN 0
    \* 100 * num > 55 * den, with the factor 10 of den taken out of both sides
    ELSE IF 2 * finalConfidence.num > 11 * (finalConfidence.den \div 10)
    THEN 1 ELSE 0

\* State & evolution block of a cycle whose confirmed length is a multiple of 5.
periodicBlock(core, confirmedHistory, shared, news) ==
    [systemState |->
        IF truthy(shared.longTermGlobalAccuracy)
        THEN evolveSystemParameters(core.systemState, shared.longTermGlobalAccuracy)
        ELSE core.systemState,
     mlFeatureWeights |-> evolveMLWeights(core.mlFeatureWeights, confirmedHistory),
     marketEvents |-> updateMarketSentiment(core.marketEvents, news)]

\* if (confirmedHistory.length % 5 === 0) { ... }
blockStage(core, confirmedHistory, shared, news) ==
    IF Len(confirmedHistory) % EvolveEvery = 0
    THEN periodicBlock(core, confirmedHistory, shared, news)
    ELSE core

\* lastResult is not null: sharedStatsPayload?.lastActualOutcome is truthy
hasLastResult(shared) == truthy(shared.lastActualOutcome)

\* lastResult.status
lastResultStatus(shared) ==
    IF getBigSmallFromNumber(shared.lastActualOutcome) = shared.lastPredictedOutcome
    THEN "Win" ELSE "Loss"

\* A variant that also enters defensive mode on a negative sentiment factor.
modeStageOnSentiment(core, confirmedHistory, shared) ==
    IF getMarketSentimentFactor(core.marketEvents) < 0
    THEN [core EXCEPT !.systemState.DEFENSIVE_MODE_ACTIVE = TRUE]
    ELSE IF hasLastResult(shared)
    THEN [core EXCEPT !.systemState =
             manageDefensiveMode(core.systemState, confirmedHistory)]
    ELSE core

\* if (lastResult) manageDefensiveMode(confirmedHistory)
modeStage(core, confirmedHistory, shared) ==
    IF hasLastResult(shared)
    THEN [core EXCEPT !.systemState =
             manageDefensiveMode(core.systemState, confirmedHistory)]
    ELSE core

\* The output object of a completed pipeline.
outputOf(primaryModel, advice, finalConfidence, defensive) ==
    [finalDecision |-> primaryModel.prediction,
     finalConfidence |-> finalConfidence,
     confidenceLevel |-> levelOf(finalConfidence, defensive),
     agreeingModels |-> advice.agreeingModels,
     totalAdvisors |-> advice.totalAdvisors,
     systemHealth |-> IF defensive THEN "DEFENSIVE_MODE" ELSE "OK",
     advisorySignals |-> advice.advisorySignals]

composeOutput(primaryModel, advice, defensive) ==
    outputOf(primaryModel, advice,
             composeConfidence(primaryModel, advice, defensive), defensive)

\* Object.assign(sharedStatsPayload, {...output, lastPredictedOutcome, mlFeatures, status})
persist(shared, output, mlFeatures) ==
    [shared EXCEPT
       !.finalDecision = output.finalDecision,
       !.finalConfidence = output.finalConfidence,
       !.confidenceLevel = output.confidenceLevel,
       !.agreeingModels = output.agreeingModels,
       !.totalAdvisors = output.totalAdvisors,
       !.systemHealth = output.systemHealth,
       !.advisorySignals = output.advisorySignals,
       !.lastPredictedOutcome = output.finalDecision,
       !.mlFeatures = mlFeatures,
       !.status = IF hasLastResult(shared) THEN lastResultStatus(shared) ELSE "Pending"]

\* What a call of ultraAIPredict leaves and returns.
cycleResult(core, shared, decision, gatePassed, ranBlock, modeEvaluations) ==
    [core |-> core, shared |-> shared, decision |-> decision,
     gatePassed |-> gatePassed, ranBlock |-> ranBlock,
     modeEvaluations |-> modeEvaluations]

\* The decision is persisted into the shared stats and returned.
emit(core, confirmedHistory, shared, mlFeatures, output) ==
    cycleResult(core, persist(shared, output, mlFeatures), output,
                TRUE, Len(confirmedHistory) % EvolveEvery = 0,
                IF hasLastResult(shared) THEN 1 ELSE 0)

\* Stages 2 and 3 and the persisting of the decision, or the fallback when
\* the primary model abstains.
conclude(core, confirmedHistory, shared, coin, ind, mlFeatures, primaryModel) ==
    IF ~primaryModel.present
    THEN cycleResult(core, shared, fallbackDecision(coin, 0, "MODEL_UNCERTAIN"),
                     TRUE, Len(confirmedHistory) % EvolveEvery = 0,
                     IF hasLastResult(shared) THEN 1 ELSE 0)
    ELSE emit(core, confirmedHistory, shared, mlFeatures,
              composeOutput(primaryModel,
                            runAdvisoryModels(confirmedHistory, ind,
                                              primaryModel.prediction),
                            core.systemState.DEFENSIVE_MODE_ACTIVE))

\* Stage 1: the features and the primary prediction.
primaryStage(core, confirmedHistory, shared, coin, ind, mlFeatures) ==
    conclude(core, confirmedHistory, shared, coin, ind, mlFeatures,
             analyzeUnifiedMLModel(core.mlFeatureWeights, mlFeatures))

\* The prediction pipeline on the core state the state management left.
pipeline(core, confirmedHistory, shared, coin, ind) ==
    primaryStage(core, confirmedHistory, shared, coin, ind,
                 createFeatureSetForML(core.systemState, confirmedHistory, ind))

\* A variant that persists the decision of a cycle below the minimum history.
predictCyclePersisting(core, confirmedHistory, shared, coin, ind, news) ==
    IF Len(confirmedHistory) < core.systemState.MIN_HISTORY
    THEN cycleResult(core,
                     persist(shared, fallbackDecision(coin, 1, "INSUFFICIENT_HISTORY"),
                             NoFeatures),
                     fallbackDecision(coin, 1, "INSUFFICIENT_HISTORY"),
                     FALSE, FALSE, 0)
    ELSE pipeline(modeStage(blockStage(core, confirmedHistory, shared, news),
                            confirmedHistory, shared),
                  confirmedHistory, shared, coin, ind)

\* A cycle on the confirmed history.
predictCycle(core, confirmedHistory, shared, coin, ind, news) ==
    IF Len(confirmedHistory) < core.systemState.MIN_HISTORY
    THEN cycleResult(core, shared, fallbackDecision(coin, 1, "INSUFFICIENT_HISTORY"),
                     FALSE, FALSE, 0)
    ELSE pipeline(modeStage(blockStage(core, confirmedHistory, shared, news),
                            confirmedHistory, shared),
                  confirmedHistory, shared, coin, ind)

\* One call of ultraAIPredict.  core is the module state of state.js and
\* market_sentiment.js; coin, ind and news are what the call draws.
\* The result carries the new core state, the shared stats as mutated, the
\* decision returned, and what the call ran.
ultraAIPredict(core, currentSharedHistory, sharedStatsPayload, coin, ind, news) ==
    LET isConfirmed(p) == p.actual # Absent
    IN  predictCycle(core, SelectSeq(currentSharedHistory, isConfirmed),
                     sharedStatsPayload, coin, ind, news)

(***************************************************************************)
(* index.js: the /predict handler.  Round identifiers (issueNumber) are    *)
(* positive integers; 0 stands for "no period yet" (null).                 *)
(***************************************************************************)
NoPeriod == 0

\* A round identifier that is not the decimal form of an integer, such as
\* "2024A": BigInt(endedPeriodFull) throws on it.
NonNumericPeriod == -2

NoPrediction ==
    [period |-> NoPeriod, prediction |-> NoClass, confidence |-> Absent,
     confidenceLevel |-> Absent, systemHealth |-> ""]

NoResponse == [code |-> 0, message |-> "", currentPrediction |-> NoPrediction]

\* A variant whose record carries a feature snapshot and the class predicted.
newRecordWithSnapshot(endedPeriodFull, actualNumber) ==
    [period |-> endedPeriodFull,
     actual |-> actualNumber,
     actualNumber |-> actualNumber,
     status |-> "Pending",
     mlFeatures |-> [present |-> TRUE, values |-> [k \in FeatureNames |-> 100]],
     lastPredictedOutcome |-> "BIG"]

\* inMemoryHistory.unshift({period, actual, actualNumber, resultType, status})
newRecord(endedPeriodFull, actualNumber) ==
    [period |-> endedPeriodFull,
     actual |-> actualNumber,
     actualNumber |-> actualNumber,
     status |-> "Pending",
     mlFeatures |-> NoFeatures,
     lastPredictedOutcome |-> NoClass]

\* The status the previous prediction gets once its round has ended.
statusOfPreviousPrediction(previousSharedPrediction, actualResultType) ==
    IF previousSharedPrediction.prediction \in {"DEFENSIVE_MODE", "COOLDOWN"}
    THEN "Cooldown"
    ELSE IF actualResultType = previousSharedPrediction.prediction THEN "Win"
    ELSE "Loss"

\* inMemoryHistory.find(entry => entry.period === endedPeriodFull): its
\* index, 0 when there is none.
findEntry(history, endedPeriodFull) ==
    LET hits == {i \in 1..Len(history) : history[i].period = endedPeriodFull}
    IN  IF hits = {} THEN 0 ELSE CHOOSE i \in hits : \A j \in hits : i <= j

\* A variant that writes the status to the newest record.
updateStatusOfNewest(history, endedPeriodFull, status) ==
    IF history = <<>> THEN history ELSE [history EXCEPT ![1].status = status]

\* historyEntryToUpdate.status = statusOfPreviousPrediction
updateStatus(history, endedPeriodFull, status) ==
    LET i == findEntry(history, endedPeriodFull)
    IN  IF i = 0 THEN history ELSE [history EXCEPT ![i].status = status]

\* A variant that makes room by dropping the newest of the old records.
insertRecordOverNewest(history, record) ==
    IF Len(history) + 1 > MAX_HISTORY_LENGTH THEN <<record>> \o Tail(history)
    ELSE <<record>> \o history

\* unshift, then pop once the cap is exceeded
insertRecord(history, record) ==
    LET grown == <<record>> \o history
    IN  IF Len(grown) > MAX_HISTORY_LENGTH THEN SubSeq(grown, 1, Len(grown) - 1)
        ELSE grown

\* aiDecision.finalConfidence ? Math.round(aiDecision.finalConfidence * 100) : 50
confidencePercent(finalConfidence) ==
    IF finalConfidence.den = 0 \/ finalConfidence.num = 0 THEN 50
    ELSE (2 * finalConfidence.num + finalConfidence.den \div 100)
            \div (2 * (finalConfidence.den \div 100))

\* previousSharedPrediction && previousSharedPrediction.period === endedPeriodFull
previousMatches(app, endedPeriodFull) ==
    /\ app.inMemoryCurrentPrediction # NoPrediction
    /\ app.inMemoryCurrentPrediction.period = endedPeriodFull

\* The history after the status of the previous prediction is written.
resolvedHistory(app, endedPeriodFull, actualNumber) ==
    IF previousMatches(app, endedPeriodFull)
    THEN updateStatus(app.inMemoryHistory, endedPeriodFull,
                      statusOfPreviousPrediction(app.inMemoryCurrentPrediction,
                                                 getBigSmallFromNumber(actualNumber)))
    ELSE app.inMemoryHistory

\* The shared stats after the results of the last cycle are passed back.
statsPassedBack(app, endedPeriodFull, actualNumber) ==
    IF previousMatches(app, endedPeriodFull)
    THEN [app.inMemorySharedStats EXCEPT
            !.lastActualOutcome = actualNumber,
            !.lastPredictedOutcome = app.inMemoryCurrentPrediction.prediction,
            !.lastConfidenceLevel = app.inMemoryCurrentPrediction.confidenceLevel]
    ELSE app.inMemorySharedStats

newPredictionData(endedPeriodFull, aiDecision) ==
    [period |-> endedPeriodFull + 1,
     prediction |-> aiDecision.finalDecision,
     confidence |-> confidencePercent(aiDecision.finalConfidence),
     confidenceLevel |-> aiDecision.confidenceLevel,
     systemHealth |-> aiDecision.systemHealth]

\* What handling a request leaves: the server state, the response, and
\* what ran.
handled(app, response, invoked, resolved, ai) ==
    [app |-> app, response |-> response, invoked |-> invoked, resolved |-> resolved,
     ranBlock |-> ai.ranBlock, modeEvaluations |-> ai.modeEvaluations,
     gatePassed |-> ai.gatePassed]

\* The end of a cycle: the prediction for the next round is stored and sent.
storePrediction(endedPeriodFull, resolved, history, ai, prediction) ==
    handled([inMemoryHistory |-> history,
             inMemorySharedStats |-> ai.shared,
             inMemoryCurrentPrediction |-> prediction,
             lastProcessedPeriod |-> endedPeriodFull,
             core |-> ai.core],
            [code |-> 200, message |-> "Prediction cycle complete.",
             currentPrediction |-> prediction],
            TRUE, resolved, ai)

\* BigInt(endedPeriodFull) throws after the core has returned: the handler
\* answers 500 and the stored prediction stays the one of before.
failedAfterCore(previous, endedPeriodFull, resolved, history, ai) ==
    handled([inMemoryHistory |-> history,
             inMemorySharedStats |-> ai.shared,
             inMemoryCurrentPrediction |-> previous,
             lastProcessedPeriod |-> endedPeriodFull,
             core |-> ai.core],
            [code |-> 500, message |-> "Cannot convert to a BigInt",
             currentPrediction |-> NoPrediction],
            TRUE, resolved, ai)

afterCore(previous, endedPeriodFull, resolved, history, ai) ==
    IF endedPeriodFull = NonNumericPeriod
    THEN failedAfterCore(previous, endedPeriodFull, resolved, history, ai)
    ELSE storePrediction(endedPeriodFull, resolved, history, ai,
                         newPredictionData(endedPeriodFull, ai.decision))

\* aiDecision = ultraAIPredict(inMemoryHistory, inMemorySharedStats)
callCore(app, endedPeriodFull, resolved, history, stats, coin, ind, news) ==
    afterCore(app.inMemoryCurrentPrediction, endedPeriodFull, resolved, history,
              ultraAIPredict(app.core, history, stats, coin, ind, news))

\* The body of the handler once the round's result is at hand and is not
\* the round processed last.
processRound(app, endedPeriodFull, actualNumber, coin, ind, news) ==
    callCore(app, endedPeriodFull,
             IF previousMatches(app, endedPeriodFull)
             THEN findEntry(app.inMemoryHistory, endedPeriodFull) ELSE Absent,
             insertRecord(resolvedHistory(app, endedPeriodFull, actualNumber),
                          newRecord(endedPeriodFull, actualNumber)),
             statsPassedBack(app, endedPeriodFull, actualNumber),
             coin, ind, news)

NothingRan == [ranBlock |-> FALSE, modeEvaluations |-> 0, gatePassed |-> FALSE]

\* A variant without the test for the round processed last.
predictWithoutRepeatTest(app, gameResult, coin, ind, news) ==
    IF gameResult.issueNumber = NoPeriod
    THEN handled(app,
                 [code |-> 400, message |-> "Missing gameResult in request body.",
                  currentPrediction |-> NoPrediction],
                 FALSE, Absent, NothingRan)
    ELSE processRound(app, gameResult.issueNumber, gameResult.number, coin, ind, news)

\* app.post('/predict'), version 6.0: the request carries the game result.
\* A request without gameResult.issueNumber has issueNumber = NoPeriod.
predict(app, gameResult, coin, ind, news) ==
    IF gameResult.issueNumber = NoPeriod
    THEN handled(app,
                 [code |-> 400, message |-> "Missing gameResult in request body.",
                  currentPrediction |-> NoPrediction],
                 FALSE, Absent, NothingRan)
    ELSE IF gameResult.issueNumber = app.lastProcessedPeriod
    THEN handled(app,
                 [code |-> 200, message |-> "Period already processed.",
                  currentPrediction |-> app.inMemoryCurrentPrediction],
                 FALSE, Absent, NothingRan)
    ELSE processRound(app, gameResult.issueNumber, gameResult.number, coin, ind, news)

(***************************************************************************)
(* The state.                                                              *)
(***************************************************************************)
VARIABLES
    inMemoryHistory,            \* index.js: outcome records, newest first
    inMemorySharedStats,        \* index.js: the shared cycle memory
    inMemoryCurrentPrediction,  \* index.js: the prediction for the next round
    lastProcessedPeriod,        \* index.js: the round processed last
    systemState,                \* state.js
    mlFeatureWeights,           \* state.js
    marketEvents,               \* market_sentiment.js
    isProcessingPrediction,     \* index.js 5.0: the in-flight guard
    inflight,                   \* index.js 5.0: where each request stands
    response,                   \* the response to the request handled last
    probe,                      \* what the request handled last ran
    client                      \* the request stream

vars ==
    <<inMemoryHistory, inMemorySharedStats, inMemoryCurrentPrediction,
      lastProcessedPeriod, systemState, mlFeatureWeights, marketEvents,
      isProcessingPrediction, inflight, response, probe, client>>

App ==
    [inMemoryHistory |-> inMemoryHistory,
     inMemorySharedStats |-> inMemorySharedStats,
     inMemoryCurrentPrediction |-> inMemoryCurrentPrediction,
     lastProcessedPeriod |-> lastProcessedPeriod,
     core |-> [systemState |-> systemState,
               mlFeatureWeights |-> mlFeatureWeights,
               marketEvents |-> marketEvents]]

NoProbe ==
    [invoked |-> FALSE, gatePassed |-> FALSE, ranBlock |-> FALSE,
     modeEvaluations |-> 0, resolved |-> Absent, wasDefensive |-> FALSE,
     blockGap |-> Absent, sinceBlock |-> Absent, ascending |-> TRUE]

\* What a handled request ran: resolved is the index of the history entry
\* whose status was written (0 when the stored prediction was for the round
\* but no entry was found, Absent when it was not for the round), blockGap
\* the number of cycles since the previous run of the periodic block
\* (sinceBlock saturates at EvolveEvery), ascending whether every round
\* submitted so far was above the rounds before it (a request without a
\* round submits none).
nextProbe(old, r, wasDefensive) ==
    [invoked |-> r.invoked,
     gatePassed |-> r.gatePassed,
     ranBlock |-> r.ranBlock,
     modeEvaluations |-> r.modeEvaluations,
     resolved |-> r.resolved,
     wasDefensive |-> wasDefensive,
     blockGap |-> IF r.ranBlock THEN old.sinceBlock ELSE Absent,
     sinceBlock |->
        IF ~r.invoked THEN old.sinceBlock
        ELSE IF r.ranBlock THEN 0
        ELSE IF old.sinceBlock = Absent THEN Absent
        ELSE Min2(old.sinceBlock + 1, EvolveEvery),
     ascending |->
        IF r.response.code = 400 THEN old.ascending
        ELSE old.ascending /\ r.invoked /\ r.app.lastProcessedPeriod > lastProcessedPeriod]

\* The server takes the state r.app and answers r.response.
Install(r) ==
    /\ inMemoryHistory' = r.app.inMemoryHistory
    /\ inMemorySharedStats' = r.app.inMemorySharedStats
    /\ inMemoryCurrentPrediction' = r.app.inMemoryCurrentPrediction
    /\ lastProcessedPeriod' = r.app.lastProcessedPeriod
    /\ systemState' = r.app.core.systemState
    /\ mlFeatureWeights' = r.app.core.mlFeatureWeights
    /\ marketEvents' = r.app.core.marketEvents
    /\ response' = r.response
    /\ probe' = nextProbe(probe, r, systemState.DEFENSIVE_MODE_ACTIVE)

(***************************************************************************)
(* The request stream.  A client follows a profile: it submits the rounds  *)
(* 1..cycle over and over, round p with outcome numbers[p].  While it does *)
(* so the core draws "BIG" and the first indicator choice, and no news.    *)
(* At a switch point the stream becomes free for MaxFree requests: every   *)
(* input of the handler and every draw of the core is then chosen freely.  *)
(***************************************************************************)
Profiles ==
    << [cycle |-> 4, numbers |-> <<2, 2, 2, 7>>],
       [cycle |-> 4, numbers |-> <<7, 7, 7, 7>>],
       [cycle |-> 2, numbers |-> <<2, 2>>],
       \* a cycle longer than the stream: the rounds only ascend
       [cycle |-> MaxRequests + MaxFree + 1,
        numbers |-> [p \in 1..(MaxRequests + MaxFree + 1) |->
                        IF p % 4 = 0 THEN 7 ELSE 2]] >>

SwitchPoints == {0, 98, 101, 148}

FreeNumbers == {0, 7, NotANumber}

SteadyIndicators ==
    [rsi |-> 80, macdLine |-> 30, signalLine |-> 10, shortMA |-> 700,
     mediumMA |-> 600, longMA |-> 500, bollingerPct |-> 50, rsiTrend |-> "BIG"]

steadyResult(c) ==
    LET profile == Profiles[c.profile]
        p == (c.sent % profile.cycle) + 1
    IN  [issueNumber |-> p, number |-> profile.numbers[p]]

\* The confirmed length the core will see, and what it draws at that length.
lengthAfter == Min2(Len(inMemoryHistory) + 1, MAX_HISTORY_LENGTH)

IndicatorDraws ==
    IF lengthAfter >= MIN_HISTORY THEN IndicatorChoices ELSE {SteadyIndicators}

NewsDraws ==
    IF lengthAfter >= MIN_HISTORY /\ lengthAfter % EvolveEvery = 0
    THEN NewsChoices ELSE {"none"}

FreePeriods ==
    {NoPeriod, NonNumericPeriod, lastProcessedPeriod, 1,
     IF lastProcessedPeriod = NonNumericPeriod THEN 1 ELSE lastProcessedPeriod + 1}

Init ==
    /\ inMemoryHistory = <<>>
    /\ inMemorySharedStats = EmptySharedStats
    /\ inMemoryCurrentPrediction = NoPrediction
    /\ lastProcessedPeriod = NoPeriod
    /\ systemState = InitialSystemState
    /\ mlFeatureWeights = InitialWeights
    /\ marketEvents = <<>>
    /\ isProcessingPrediction = FALSE
    /\ inflight = <<>>
    /\ response = NoResponse
    /\ probe = NoProbe
    /\ client \in [profile : 1..Len(Profiles), sent : {0}, free : {Absent}]

\* A request of the steady stream.
SteadyRequest ==
    /\ client.free = Absent
    /\ client.sent < MaxRequests
    /\ Install(predict(App, steadyResult(client), "BIG", SteadyIndicators, "none"))
    /\ client' = [client EXCEPT !.sent = client.sent + 1]
    /\ UNCHANGED <<isProcessingPrediction, inflight>>

\* A request of the free stream.
FreeRequest ==
    /\ \/ client.free = Absent /\ client.sent \in SwitchPoints
       \/ client.free # Absent /\ client.free > 0
    /\ \E issueNumber \in FreePeriods, number \in FreeNumbers, coin \in Classes,
          ind \in IndicatorDraws, news \in NewsDraws :
          Install(predict(App, [issueNumber |-> issueNumber, number |-> number],
                          coin, ind, news))
    /\ client' = [client EXCEPT
                    !.sent = client.sent + 1,
                    !.free = IF client.free = Absent THEN MaxFree - 1
                             ELSE client.free - 1]
    /\ UNCHANGED <<isProcessingPrediction, inflight>>

Next == SteadyRequest \/ FreeRequest

Spec == Init /\ [][Next]_vars

(***************************************************************************)
(* The defensive-mode state machine on its own: manageDefensiveMode is     *)
(* applied to histories drawn from a family of status sequences, and to    *)
(* what they become as records with further statuses arrive on top.        *)
(***************************************************************************)
MaxArrivals == 3

Thresholds == {InitialThreshold, ThresholdMax}

PendingRuns == {0, 15, 16}

WinRuns == {0, 6, 7}

LossRuns == {8, 9, 25}

statusRecord(status) == [newRecord(1, 7) EXCEPT !.status = status]

Run(status, n) == [i \in 1..n |-> statusRecord(status)]

\* Newest first: pending records, then wins, then losses.
StatusHistories ==
    {Run("Pending", q) \o Run("Win", w) \o Run("Loss", l) :
        q \in PendingRuns, w \in WinRuns, l \in LossRuns}

InitSM ==
    /\ inMemoryHistory \in StatusHistories
    /\ systemState \in {[InitialSystemState EXCEPT !.BAD_TREND_THRESHOLD = t,
                                                   !.DEFENSIVE_MODE_ACTIVE = d] :
                           t \in Thresholds, d \in BOOLEAN}
    /\ inMemorySharedStats = EmptySharedStats
    /\ inMemoryCurrentPrediction = NoPrediction
    /\ lastProcessedPeriod = NoPeriod
    /\ mlFeatureWeights = InitialWeights
    /\ marketEvents = <<>>
    /\ isProcessingPrediction = FALSE
    /\ inflight = <<>>
    /\ response = NoResponse
    /\ probe = NoProbe
    /\ client = [profile |-> 0, sent |-> 0, free |-> Absent]

\* A record with a status arrives on top of the history.
RecordArrives ==
    /\ client.sent < MaxArrivals
    /\ \E status \in Statuses :
          inMemoryHistory' = <<statusRecord(status)>> \o inMemoryHistory
    /\ client' = [client EXCEPT !.sent = client.sent + 1]
    /\ probe' = NoProbe
    /\ UNCHANGED <<inMemorySharedStats, inMemoryCurrentPrediction, lastProcessedPeriod,
                   systemState, mlFeatureWeights, marketEvents,
                   isProcessingPrediction, inflight, response>>

\* manageDefensiveMode(history)
EvaluateMode ==
    /\ systemState' = manageDefensiveMode(systemState, inMemoryHistory)
    /\ probe' = [NoProbe EXCEPT !.invoked = TRUE, !.gatePassed = TRUE,
                                !.modeEvaluations = 1,
                                !.wasDefensive = systemState.DEFENSIVE_MODE_ACTIVE]
    /\ UNCHANGED <<inMemoryHistory, inMemorySharedStats, inMemoryCurrentPrediction,
                   lastProcessedPeriod, mlFeatureWeights, marketEvents,
                   isProcessingPrediction, inflight, response, client>>

NextSM == RecordArrives \/ EvaluateMode

SpecSM == InitSM /\ [][NextSM]_vars

(***************************************************************************)
(* The /predict handler of versions 5.0 and 5.3: the game result is        *)
(* fetched by the server, and the handler is suspended on the fetch.       *)
(* inflight[c] is where the request of client c stands.                    *)
(***************************************************************************)
MaxClients == 2

MaxCycles == 4

Clients == 1..MaxClients

\* A variant that admits a request without setting the flag.
admissionWithoutFlag(processing) ==
    IF processing
    THEN [admitted |-> FALSE, processing |-> processing,
          response |-> [code |-> 429,
                        message |-> "Prediction cycle already in progress.",
                        currentPrediction |-> NoPrediction]]
    ELSE [admitted |-> TRUE, processing |-> processing, response |-> NoResponse]

\* if (isProcessingPrediction) return 429; ... isProcessingPrediction = true
admission(processing) ==
    IF processing
    THEN [admitted |-> FALSE, processing |-> processing,
          response |-> [code |-> 429,
                        message |-> "Prediction cycle already in progress.",
                        currentPrediction |-> NoPrediction]]
    ELSE [admitted |-> TRUE, processing |-> TRUE, response |-> NoResponse]

\* The handler from the return of the fetch to its response: the result is
\* of the period fetched last, or it is a new round.
completeCycle(app, gameApiResult, coin, ind, news) ==
    IF gameApiResult.issueNumber = app.lastProcessedPeriod
    THEN handled(app,
                 [code |-> 200, message |-> "Period already processed.",
                  currentPrediction |-> app.inMemoryCurrentPrediction],
                 FALSE, Absent, NothingRan)
    ELSE processRound(app, gameApiResult.issueNumber, gameApiResult.number,
                      coin, ind, news)

\* res.status(500).json({ success: false, message })
ErrorResponse ==
    [code |-> 500, message |-> "Internal server error.",
     currentPrediction |-> NoPrediction]

InitV5 ==
    /\ inMemoryHistory = <<>>
    /\ inMemorySharedStats = EmptySharedStats
    /\ inMemoryCurrentPrediction = NoPrediction
    /\ lastProcessedPeriod = NoPeriod
    /\ systemState = InitialSystemState
    /\ mlFeatureWeights = InitialWeights
    /\ marketEvents = <<>>
    /\ isProcessingPrediction = FALSE
    /\ inflight = [c \in Clients |-> "idle"]
    /\ response = NoResponse
    /\ probe = NoProbe
    /\ client = [profile |-> 0, sent |-> 0, free |-> Absent]

\* A request of client c reaches the handler: it is rejected, or it sets
\* the flag and is suspended on the fetch.
Arrive(c) ==
    /\ inflight[c] = "idle"
    /\ client.sent < MaxCycles
    /\ isProcessingPrediction' = admission(isProcessingPrediction).processing
    /\ inflight' = IF admission(isProcessingPrediction).admitted
                   THEN [inflight EXCEPT ![c] = "fetching"] ELSE inflight
    /\ response' = admission(isProcessingPrediction).response
    /\ probe' = NoProbe
    /\ client' = [client EXCEPT !.sent = client.sent + 1]
    /\ UNCHANGED <<inMemoryHistory, inMemorySharedStats, inMemoryCurrentPrediction,
                   lastProcessedPeriod, systemState, mlFeatureWeights, marketEvents>>

\* The fetch of client c's request returns a game result; the handler runs
\* to its response and clears the flag.
FetchReturns(c) ==
    /\ inflight[c] = "fetching"
    /\ \E issueNumber \in {lastProcessedPeriod, lastProcessedPeriod + 1} \ {NoPeriod},
          number \in FreeNumbers, coin \in Classes :
          Install(completeCycle(App, [issueNumber |-> issueNumber, number |-> number],
                                coin, SteadyIndicators, "none"))
    /\ isProcessingPrediction' = FALSE
    /\ inflight' = [inflight EXCEPT ![c] = "idle"]
    /\ UNCHANGED client

\* A variant without the finally block: the flag stays set.
FetchThrowsKeepingFlag(c) ==
    /\ inflight[c] = "fetching"
    /\ response' = ErrorResponse
    /\ probe' = NoProbe
    /\ inflight' = [inflight EXCEPT ![c] = "idle"]
    /\ UNCHANGED <<inMemoryHistory, inMemorySharedStats, inMemoryCurrentPrediction,
                   lastProcessedPeriod, systemState, mlFeatureWeights, marketEvents,
                   isProcessingPrediction, client>>

\* The fetch of client c's request throws: 500, and the flag is cleared.
FetchThrows(c) ==
    /\ inflight[c] = "fetching"
    /\ response' = ErrorResponse
    /\ probe' = NoProbe
    /\ isProcessingPrediction' = FALSE
    /\ inflight' = [inflight EXCEPT ![c] = "idle"]
    /\ UNCHANGED <<inMemoryHistory, inMemorySharedStats, inMemoryCurrentPrediction,
                   lastProcessedPeriod, systemState, mlFeatureWeights, marketEvents,
                   client>>

NextV5 == \E c \in Clients : Arrive(c) \/ FetchReturns(c) \/ FetchThrows(c)

SpecV5 == InitV5 /\ [][NextV5]_vars

\* The same handler when every fetch returns or throws in the end.
SpecV5Fair ==
    SpecV5 /\ \A c \in Clients : WF_vars(FetchReturns(c) \/ FetchThrows(c))

(***************************************************************************)
(* evolveMLWeights on its own: it is applied to weight vectors and         *)
(* histories of trades drawn from bounded families.                        *)
(***************************************************************************)
MaxPasses == 2

\* Prior weight vectors: the initial one, the two ends of the range, and
\* one beyond both ends.
WeightVectors ==
    {InitialWeights,
     [k \in WeightNames |-> WeightMin],
     [k \in WeightNames |-> WeightMax],
     [k \in WeightNames |-> IF k \in FeatureNames THEN WeightMax + 40 ELSE WeightMin - 40]}

\* A record with a status that carries the features of its prediction.
tradeRecord(status, predicted, ind) ==
    [newRecord(1, 7) EXCEPT
        !.status = status,
        !.lastPredictedOutcome = predicted,
        !.mlFeatures = createFeatureSetForML(InitialSystemState,
                                             Run("Win", MIN_HISTORY), ind)]

TradeRuns == {0, 19, 20, 50}

OlderRuns == {0, 1, 30}

\* Newest first: trades of one kind, then older losing trades, then a
\* record without features.
TradeHistories ==
    {[i \in 1..n |-> tradeRecord(status, predicted, ind)]
        \o [i \in 1..m |-> tradeRecord("Loss", "SMALL", SteadyIndicators)]
        \o <<newRecord(1, 7)>> :
        n \in TradeRuns, m \in OlderRuns, status \in {"Win", "Loss", "Pending"},
        predicted \in Classes, ind \in IndicatorChoices}

InitEvolve ==
    /\ inMemoryHistory \in TradeHistories
    /\ mlFeatureWeights \in WeightVectors
    /\ inMemorySharedStats = EmptySharedStats
    /\ inMemoryCurrentPrediction = NoPrediction
    /\ lastProcessedPeriod = NoPeriod
    /\ systemState = InitialSystemState
    /\ marketEvents = <<>>
    /\ isProcessingPrediction = FALSE
    /\ inflight = <<>>
    /\ response = NoResponse
    /\ probe = NoProbe
    /\ client = [profile |-> 0, sent |-> 0, free |-> Absent]

\* evolveMLWeights(history)
EvolvePass ==
    /\ client.sent < MaxPasses
    /\ mlFeatureWeights' = evolveMLWeights(mlFeatureWeights, inMemoryHistory)
    /\ probe' = [NoProbe EXCEPT !.invoked = TRUE, !.ranBlock = TRUE]
    /\ client' = [client EXCEPT !.sent = client.sent + 1]
    /\ UNCHANGED <<inMemoryHistory, inMemorySharedStats, inMemoryCurrentPrediction,
                   lastProcessedPeriod, systemState, marketEvents,
                   isProcessingPrediction, inflight, response>>

NextEvolve == EvolvePass

SpecEvolve == InitEvolve /\ [][NextEvolve]_vars

(***************************************************************************)
(* evolveSystemParameters on its own: it is applied to accuracies drawn    *)
(* from both sides and both ends of the band around the target.            *)
(***************************************************************************)
MaxTunings == 3

\* Accuracies in thousandths: none, far below, just below the band, its
\* lower end, the target, its upper end, just above the band, far above.
Accuracies ==
    {0,
     TARGET_ACCURACY - AccuracyBand - 10, TARGET_ACCURACY - AccuracyBand - 1,
     TARGET_ACCURACY - AccuracyBand, TARGET_ACCURACY,
     TARGET_ACCURACY + AccuracyBand,
     TARGET_ACCURACY + AccuracyBand + 1, 1000}

\* The threshold as constructed and as earlier calls leave it at the ends.
TunedThresholds == {ThresholdMin, InitialThreshold, ThresholdMax}

InitParams ==
    /\ systemState \in
          {[InitialSystemState EXCEPT !.BAD_TREND_THRESHOLD = t,
                                      !.DEFENSIVE_MODE_ACTIVE = d] :
              t \in TunedThresholds, d \in BOOLEAN}
    /\ inMemoryHistory = <<>>
    /\ mlFeatureWeights = InitialWeights
    /\ inMemorySharedStats = EmptySharedStats
    /\ inMemoryCurrentPrediction = NoPrediction
    /\ lastProcessedPeriod = NoPeriod
    /\ marketEvents = <<>>
    /\ isProcessingPrediction = FALSE
    /\ inflight = <<>>
    /\ response = NoResponse
    /\ probe = NoProbe
    /\ client = [profile |-> 0, sent |-> 0, free |-> Absent]

\* evolveSystemParameters(globalAccuracy); the accuracy passed is kept in
\* the shared stats.
TuneParameters ==
    /\ client.sent < MaxTunings
    /\ \E globalAccuracy \in Accuracies :
          /\ systemState' = evolveSystemParameters(systemState, globalAccuracy)
          /\ inMemorySharedStats' =
                [inMemorySharedStats EXCEPT !.longTermGlobalAccuracy = globalAccuracy]
    /\ probe' = [NoProbe EXCEPT !.invoked = TRUE, !.ranBlock = TRUE]
    /\ client' = [client EXCEPT !.sent = client.sent + 1]
    /\ UNCHANGED <<inMemoryHistory, inMemoryCurrentPrediction, lastProcessedPeriod,
                   mlFeatureWeights, marketEvents, isProcessingPrediction,
                   inflight, response>>

NextParams == TuneParameters

SpecParams == InitParams /\ [][NextParams]_vars

(***************************************************************************)
(* analyzeUnifiedMLModel on its own: it is applied to weight vectors and   *)
(* feature objects drawn from bounded families; the features passed and    *)
(* the verdict returned are kept in the shared stats.                      *)
(***************************************************************************)
MaxVerdicts == 2

\* Feature objects: none (null), and those with three of the features at
\* any of the levels -1, 0 and 1 and the others at 0.
FeatureObjects ==
    {NoFeatures} \cup
    {[present |-> TRUE,
      values |-> [k \in FeatureNames |->
                    CASE k = "rsi_strength" -> r
                      [] k = "trend_strength_score" -> t
                      [] k = "last_move" -> m
                      [] OTHER -> 0]] :
        r \in {-100, 0, 100}, t \in {-100, 0, 100}, m \in {-100, 0, 100}}

InitPrimary ==
    /\ mlFeatureWeights \in WeightVectors
    /\ inMemoryHistory = <<>>
    /\ inMemorySharedStats = EmptySharedStats
    /\ inMemoryCurrentPrediction = NoPrediction
    /\ lastProcessedPeriod = NoPeriod
    /\ systemState = InitialSystemState
    /\ marketEvents = <<>>
    /\ isProcessingPrediction = FALSE
    /\ inflight = <<>>
    /\ response = NoResponse
    /\ probe = NoProbe
    /\ client = [profile |-> 0, sent |-> 0, free |-> Absent]

\* analyzeUnifiedMLModel(features); the verdict kept is the class, NoClass
\* for null, and the confidence as a fraction.
PrimaryVerdict ==
    /\ client.sent < MaxVerdicts
    /\ \E features \in FeatureObjects :
          inMemorySharedStats' =
              [inMemorySharedStats EXCEPT
                 !.mlFeatures = features,
                 !.finalDecision =
                     analyzeUnifiedMLModel(mlFeatureWeights, features).prediction,
                 !.finalConfidence =
                     [num |-> analyzeUnifiedMLModel(mlFeatureWeights, features).confNum,
                      den |-> analyzeUnifiedMLModel(mlFeatureWeights, features).confDen]]
    /\ probe' = [NoProbe EXCEPT !.invoked = TRUE]
    /\ client' = [client EXCEPT !.sent = client.sent + 1]
    /\ UNCHANGED <<inMemoryHistory, inMemoryCurrentPrediction, lastProcessedPeriod,
                   systemState, mlFeatureWeights, marketEvents,
                   isProcessingPrediction, inflight, response>>

NextPrimary == PrimaryVerdict

SpecPrimary == InitPrimary /\ [][NextPrimary]_vars

(***************************************************************************)
(* The sentiment simulator on its own: updateMarketSentiment is called on  *)
(* collections of events as earlier calls leave them, young and about to   *)
(* be dropped, with every draw of the news.                                *)
(***************************************************************************)
MaxSentimentCalls == 3

\* The events created decays calls ago for each decays of the set, oldest
\* first, all of one type or of alternating types.
eventsAged(ages, type, alternate) ==
    LET ordered == [i \in 1..4 |-> <<MaxDecays, MaxDecays - 1, 1, 0>>[i]]
        chosen(d) == d \in ages
        kept == SelectSeq(ordered, chosen)
        flip(t) == IF t = "PositiveNews" THEN "NegativeNews" ELSE "PositiveNews"
    IN  [i \in 1..Len(kept) |->
            [type |-> IF alternate /\ i % 2 = 0 THEN flip(type) ELSE type,
             decays |-> kept[i]]]

EventCollections ==
    {eventsAged(ages, type, alternate) :
        ages \in SUBSET {MaxDecays, MaxDecays - 1, 1, 0},
        type \in {"PositiveNews", "NegativeNews"}, alternate \in BOOLEAN}

InitSentiment ==
    /\ marketEvents \in EventCollections
    /\ inMemoryHistory = <<>>
    /\ mlFeatureWeights = InitialWeights
    /\ inMemorySharedStats = EmptySharedStats
    /\ inMemoryCurrentPrediction = NoPrediction
    /\ lastProcessedPeriod = NoPeriod
    /\ systemState = InitialSystemState
    /\ isProcessingPrediction = FALSE
    /\ inflight = <<>>
    /\ response = NoResponse
    /\ probe = NoProbe
    /\ client = [profile |-> 0, sent |-> 0, free |-> Absent]

\* updateMarketSentiment()
SentimentUpdate ==
    /\ client.sent < MaxSentimentCalls
    /\ \E news \in NewsChoices :
          marketEvents' = updateMarketSentiment(marketEvents, news)
    /\ probe' = [NoProbe EXCEPT !.invoked = TRUE, !.ranBlock = TRUE]
    /\ client' = [client EXCEPT !.sent = client.sent + 1]
    /\ UNCHANGED <<inMemoryHistory, inMemorySharedStats, inMemoryCurrentPrediction,
                   lastProcessedPeriod, systemState, mlFeatureWeights,
                   isProcessingPrediction, inflight, response>>

NextSentiment == SentimentUpdate

SpecSentiment == InitSentiment /\ [][NextSentiment]_vars

(***************************************************************************)
(* createFeatureSetForML on its own: it is applied to histories of falling,*)
(* rising, constant and mixed outcomes, with the RSI the outcomes give     *)
(* where they determine it and every draw of the other indicators; the     *)
(* features returned are kept in the shared stats.                         *)
(***************************************************************************)
MaxExtractions == 2

InitFeatures ==
    /\ inMemoryHistory \in
          {[i \in 1..n |->
              newRecord(1, CASE shape = "falling" -> (IF 2 * i <= n THEN 0 ELSE 9)
                             [] shape = "rising" -> (IF 2 * i <= n THEN 9 ELSE 0)
                             [] shape = "constant" -> 7
                             [] shape = "peak" -> (IF i = 3 THEN 9 ELSE 4)
                             [] OTHER -> (IF i % 4 = 0 THEN 7 ELSE 2))] :
              n \in {MIN_HISTORY - 1, MIN_HISTORY},
              shape \in {"falling", "rising", "constant", "peak", "mixed"}}
    /\ mlFeatureWeights = InitialWeights
    /\ inMemorySharedStats = EmptySharedStats
    /\ inMemoryCurrentPrediction = NoPrediction
    /\ lastProcessedPeriod = NoPeriod
    /\ systemState = InitialSystemState
    /\ marketEvents = <<>>
    /\ isProcessingPrediction = FALSE
    /\ inflight = <<>>
    /\ response = NoResponse
    /\ probe = NoProbe
    /\ client = [profile |-> 0, sent |-> 0, free |-> Absent]

\* createFeatureSetForML(history)
ExtractFeatures ==
    /\ client.sent < MaxExtractions
    /\ \E ind \in IndicatorChoices, rsi \in rsiValuesOf(numbersOf(inMemoryHistory)) :
          inMemorySharedStats' =
              [inMemorySharedStats EXCEPT
                 !.mlFeatures = createFeatureSetForML(systemState, inMemoryHistory,
                                                      [ind EXCEPT !.rsi = rsi])]
    /\ probe' = [NoProbe EXCEPT !.invoked = TRUE]
    /\ client' = [client EXCEPT !.sent = client.sent + 1]
    /\ UNCHANGED <<inMemoryHistory, inMemoryCurrentPrediction, lastProcessedPeriod,
                   systemState, mlFeatureWeights, marketEvents,
                   isProcessingPrediction, inflight, response>>

NextFeatures == ExtractFeatures

SpecFeatures == InitFeatures /\ [][NextFeatures]_vars

(***************************************************************************)
(* Properties of the defensive-mode state machine.                         *)
(***************************************************************************)
\* The records whose status is Win or Loss, newest first.
resolvedOf(history) ==
    LET isResolved(p) == p.status \in {"Win", "Loss"}
    IN  SelectSeq(history, isResolved)

\* The 3 most recent resolved statuses are all Win.
ThreeRecentResolvedAllWin(history) ==
    /\ Len(resolvedOf(history)) >= 3
    /\ \A i \in 1..3 : resolvedOf(history)[i].status = "Win"

\* C1: defensive mode, once active, is cleared only by an evaluation of the
\* state machine on a history whose 3 most recent resolved statuses are all
\* Win; it is never cleared while the most recent run of resolved Wins is
\* shorter than 3.
DefensiveHeldUntilThreeWins ==
    [][(systemState.DEFENSIVE_MODE_ACTIVE /\ ~systemState'.DEFENSIVE_MODE_ACTIVE)
          => (probe'.modeEvaluations = 1
              /\ ThreeRecentResolvedAllWin(inMemoryHistory'))]_vars

\* C1 witness: an evaluation in defensive mode on a history whose run of
\* Wins on top is 2 long has kept the mode.
DefensiveKeptOnTwoWins ==
    /\ probe.modeEvaluations = 1
    /\ probe.wasDefensive
    /\ systemState.DEFENSIVE_MODE_ACTIVE
    /\ Len(inMemoryHistory) >= 3
    /\ inMemoryHistory[1].status = "Win"
    /\ inMemoryHistory[2].status = "Win"
    /\ inMemoryHistory[3].status = "Loss"

\* C2: an evaluation in defensive mode on a history whose 3 most recent
\* resolved statuses (Win or Loss, records still Pending not counted) are
\* all Win switches defensive mode off.
DefensiveClearsOnThreeResolvedWins ==
    (/\ probe.modeEvaluations = 1
     /\ probe.wasDefensive
     /\ ThreeRecentResolvedAllWin(inMemoryHistory))
        => ~systemState.DEFENSIVE_MODE_ACTIVE

\* The condition of the claim: the win rate over the 30 most recent
\* resolved records, of which there are at least 15.
ResolvedWindowBadTrend(sys, history) ==
    /\ Len(Slice(resolvedOf(history), BAD_TREND_WINDOW)) >= MinResolved
    /\ 1000 * countStatus(Slice(resolvedOf(history), BAD_TREND_WINDOW), "Win")
          < sys.BAD_TREND_THRESHOLD * Len(Slice(resolvedOf(history), BAD_TREND_WINDOW))

\* The condition on the 30 most recent records of any status, of which at
\* least 15 are resolved.
RecordWindowBadTrend(sys, history) ==
    /\ Len(history) >= BAD_TREND_WINDOW
    /\ Len(resolvedOf(Slice(history, BAD_TREND_WINDOW))) >= MinResolved
    /\ 1000 * countStatus(Slice(history, BAD_TREND_WINDOW), "Win")
          < sys.BAD_TREND_THRESHOLD * Len(resolvedOf(Slice(history, BAD_TREND_WINDOW)))

\* The 3 most recent records are all Win.
ThreeRecentRecordsAllWin(history) ==
    /\ Len(history) >= 3
    /\ \A i \in 1..3 : history[i].status = "Win"

\* C3 as claimed: an evaluation in NORMAL mode sets the defensive flag
\* exactly when the 30 most recent resolved records number at least 15 and
\* the win rate among them is below BAD_TREND_THRESHOLD.
NormalToDefensiveOnResolvedWindow ==
    (probe.modeEvaluations = 1 /\ ~probe.wasDefensive)
        => (systemState.DEFENSIVE_MODE_ACTIVE
               <=> ResolvedWindowBadTrend(systemState, inMemoryHistory))

\* C3 amended: an evaluation in NORMAL mode leaves the defensive flag set
\* exactly when the history has at least 30 records, the 30 most recent
\* records of any status hold at least 15 resolved ones, the win rate among
\* those is below BAD_TREND_THRESHOLD, and the 3 most recent records are
\* not all Win.
NormalToDefensiveOnRecordWindow ==
    (probe.modeEvaluations = 1 /\ ~probe.wasDefensive)
        => (systemState.DEFENSIVE_MODE_ACTIVE
               <=> (/\ RecordWindowBadTrend(systemState, inMemoryHistory)
                    /\ ~ThreeRecentRecordsAllWin(inMemoryHistory)))

\* C3 witness: an evaluation in NORMAL mode has set the flag on a window
\* that holds pending records and exactly 15 resolved ones.
DefensiveEnteredOnFifteenResolved ==
    /\ probe.modeEvaluations = 1
    /\ ~probe.wasDefensive
    /\ systemState.DEFENSIVE_MODE_ACTIVE
    /\ Len(inMemoryHistory) >= BAD_TREND_WINDOW
    /\ inMemoryHistory[1].status = "Pending"
    /\ Len(resolvedOf(Slice(inMemoryHistory, BAD_TREND_WINDOW))) = MinResolved

(***************************************************************************)
(* Properties of the prediction cycle.                                     *)
(***************************************************************************)
\* C4: every cycle that passes the minimum-history gate evaluates the
\* defensive-mode state machine exactly once, whatever the last actual
\* outcome is and also when none is recorded.
ModeEvaluatedOncePerCycle ==
    probe.gatePassed => probe.modeEvaluations = 1

\* C6: a cycle on a confirmed history shorter than 100 answers with health
\* INSUFFICIENT_HISTORY, confidence level 0 and one of the two classes.
ShortHistoryDecision ==
    (probe.invoked /\ Len(inMemoryHistory) < MIN_HISTORY)
        => (/\ inMemoryCurrentPrediction.systemHealth = "INSUFFICIENT_HISTORY"
            /\ inMemoryCurrentPrediction.confidenceLevel = 0
            /\ inMemoryCurrentPrediction.prediction \in Classes)

\* C7: in every reachable state every weight lies in [0.1, 5.0].
WeightsInRange ==
    \A k \in DOMAIN mlFeatureWeights :
        mlFeatureWeights[k] >= WeightMin /\ mlFeatureWeights[k] <= WeightMax

\* C9: consecutive runs of the periodic block are separated by 4 cycles in
\* which it does not run, at every history length up to and at the cap.
BlockEveryFifthCycle ==
    (probe.ranBlock /\ probe.blockGap # Absent) => probe.blockGap >= EvolveEvery - 1

\* C10: a request that brings the result of the round the stored prediction
\* was made for writes the status of a history record, which is then Win,
\* Loss or Cooldown.
PredictionResolved ==
    (probe.invoked /\ probe.resolved # Absent)
        => (/\ probe.resolved > 0
            /\ probe.resolved < Len(inMemoryHistory)
            /\ inMemoryHistory[probe.resolved + 1].status \in {"Win", "Loss", "Cooldown"})

\* The requests suspended on the fetch.
Fetching == {c \in Clients : inflight[c] = "fetching"}

\* C5: cycles are serialized: at most one request is ever between setting
\* the flag and clearing it, the flag is set exactly while one is, and a
\* request that arrives meanwhile is answered 429 without a call of the
\* core and without a change of the history, the shared stats or the flag.
CyclesSerialized ==
    /\ [](Cardinality(Fetching) <= 1)
    /\ [](isProcessingPrediction <=> Fetching # {})
    /\ [][(isProcessingPrediction /\ client'.sent # client.sent)
             => (/\ response'.code = 429
                 /\ ~probe'.invoked
                 /\ UNCHANGED <<inMemoryHistory, inMemorySharedStats,
                                inMemoryCurrentPrediction, lastProcessedPeriod,
                                systemState, mlFeatureWeights, marketEvents,
                                isProcessingPrediction, inflight>>)]_vars

\* C5 witness: a request has been answered 429 while another is suspended
\* on the fetch, after a cycle has completed.
RejectedWhileInFlight ==
    /\ response.code = 429
    /\ isProcessingPrediction
    /\ Cardinality(Fetching) = 1
    /\ inMemoryHistory # <<>>

\* The records evolveMLWeights takes as trades.
QualifyingTrades(history) ==
    {i \in 1..Len(history) : history[i].mlFeatures.present /\ history[i].status # ""}

resolvedTrades(history) ==
    LET resolved(p) == p.mlFeatures.present /\ p.status \in {"Win", "Loss"}
    IN  Slice(SelectSeq(history, resolved), TradeWindow)

\* C16: a pass counts and learns only from the 50 most recent records with
\* a feature snapshot and a status of Win or Loss; Pending and Cooldown
\* records neither count towards the minimum of 20 nor adjust a weight, and
\* with fewer than 20 such records no weight changes.
PassLearnsFromResolvedOnly ==
    [][client'.sent # client.sent =>
          mlFeatureWeights' = evolveFrom(mlFeatureWeights, resolvedTrades(inMemoryHistory))]_vars

(***************************************************************************)
(* Properties of the history.                                              *)
(***************************************************************************)
\* The rounds and outcomes of the records, in order.
roundsOf(history) ==
    [i \in 1..Len(history) |->
        [period |-> history[i].period, actualNumber |-> history[i].actualNumber]]

\* C11: the history is newest-first (its first record is of the round
\* processed last), it never holds more than 150 records, and an insertion
\* puts the new record in front of the old ones, of which only the last is
\* dropped, and only when the history was full.
HistoryNewestFirstAndCapped ==
    /\ [](Len(inMemoryHistory) <= MAX_HISTORY_LENGTH)
    /\ [](inMemoryHistory # <<>> => inMemoryHistory[1].period = lastProcessedPeriod)
    /\ [][inMemoryHistory' # inMemoryHistory
            => roundsOf(Tail(inMemoryHistory'))
                 = roundsOf(IF Len(inMemoryHistory) = MAX_HISTORY_LENGTH
                            THEN SubSeq(inMemoryHistory, 1, MAX_HISTORY_LENGTH - 1)
                            ELSE inMemoryHistory)]_vars

\* C11 witness: a record has been inserted into a full history.
InsertedIntoFullHistory ==
    /\ probe.invoked
    /\ Len(inMemoryHistory) = MAX_HISTORY_LENGTH
    /\ client.sent = MAX_HISTORY_LENGTH + 2

\* C12: no round identifier appears in more than one history record.
OneRecordPerRound ==
    \A i, j \in 1..Len(inMemoryHistory) :
        i # j => inMemoryHistory[i].period # inMemoryHistory[j].period

(***************************************************************************)
(* Properties of the decision.                                             *)
(***************************************************************************)
\* The request handled last ran the pipeline to its end.
PipelineCompleted ==
    /\ response.code = 200
    /\ probe.invoked
    /\ probe.gatePassed
    /\ inMemoryCurrentPrediction.systemHealth \in {"OK", "DEFENSIVE_MODE"}

\* The verdict of the primary model in the cycle that has just completed.
primaryOfCycle ==
    analyzeUnifiedMLModel(mlFeatureWeights, inMemorySharedStats.mlFeatures)

\* The consensus the cycle that has just completed would compose from, at
\* the share num / den of agreeing votes.
consensusAt(num, den) ==
    [advisorySignals |-> inMemorySharedStats.advisorySignals,
     consensusNum |-> num, consensusDen |-> den,
     agreeingModels |-> inMemorySharedStats.agreeingModels,
     totalAdvisors |-> inMemorySharedStats.totalAdvisors]

\* The consensus as the counts kept in the shared stats give it.
adviceOfCycle ==
    consensusOf(inMemorySharedStats.advisorySignals,
                inMemorySharedStats.agreeingModels,
                inMemorySharedStats.totalAdvisors)

\* finalConfidence is 0.7 times the value nonDefensive, both as fractions.
SevenTenthsOf(finalConfidence, nonDefensive) ==
    /\ finalConfidence.den = nonDefensive.den
    /\ 10 * finalConfidence.num = 7 * nonDefensive.num

\* C13: a decision composed in defensive mode has 0.7 times the confidence
\* composed from the same inputs without it, confidence level 0 whatever
\* the confidence, and health DEFENSIVE_MODE; a decision composed outside
\* it has level 1 exactly when the confidence is above 0.55, and health OK.
DefensiveDecisionDamped ==
    PipelineCompleted =>
        IF systemState.DEFENSIVE_MODE_ACTIVE
        THEN /\ SevenTenthsOf(inMemorySharedStats.finalConfidence,
                              composeConfidence(primaryOfCycle, adviceOfCycle, FALSE))
             /\ inMemorySharedStats.confidenceLevel = 0
             /\ inMemoryCurrentPrediction.confidenceLevel = 0
             /\ inMemoryCurrentPrediction.systemHealth = "DEFENSIVE_MODE"
        ELSE /\ inMemoryCurrentPrediction.confidenceLevel \in {0, 1}
             /\ inMemoryCurrentPrediction.confidenceLevel = 1
                   <=> 2 * inMemorySharedStats.finalConfidence.num
                          > 11 * (inMemorySharedStats.finalConfidence.den \div 10)
             /\ inMemoryCurrentPrediction.systemHealth = "OK"

\* C13 witness: a decision composed in defensive mode with a confidence
\* above 0.55.
DefensiveDecisionAboveLevel ==
    /\ PipelineCompleted
    /\ systemState.DEFENSIVE_MODE_ACTIVE
    /\ inMemoryCurrentPrediction.confidence > 55

(***************************************************************************)
(* Properties of parameter tuning.                                         *)
(***************************************************************************)
\* C14: after any sequence of evolveSystemParameters calls with any
\* accuracies, BAD_TREND_THRESHOLD lies in [0.42, 0.48].
ThresholdInRange ==
    /\ systemState.BAD_TREND_THRESHOLD >= ThresholdMin
    /\ systemState.BAD_TREND_THRESHOLD <= ThresholdMax

\* C14 witness: the first call, with an accuracy below the band, ends with
\* the threshold at 0.48: it started there and the raise was clamped.
RaiseClampedAtMax ==
    /\ client.sent = 1
    /\ probe.invoked
    /\ inMemorySharedStats.longTermGlobalAccuracy < TARGET_ACCURACY - AccuracyBand
    /\ systemState.BAD_TREND_THRESHOLD = ThresholdMax

\* The threshold the tuning rule gives for accuracy a from threshold old.
tunedThreshold(old, a) ==
    IF TARGET_ACCURACY - a > AccuracyBand THEN Min2(ThresholdMax, old + EVOLUTION_RATE)
    ELSE IF a - TARGET_ACCURACY > AccuracyBand THEN Max2(ThresholdMin, old - EVOLUTION_RATE)
    ELSE old

\* C15: a call with an accuracy more than 0.02 below the target raises the
\* threshold by the evolution rate up to 0.48, one more than 0.02 above
\* lowers it down to 0.42, one within 0.02 leaves it; no other field of the
\* system parameters changes.
TuningFollowsRule ==
    [][client'.sent # client.sent =>
          systemState' =
              [systemState EXCEPT !.BAD_TREND_THRESHOLD =
                  tunedThreshold(systemState.BAD_TREND_THRESHOLD,
                                 inMemorySharedStats'.longTermGlobalAccuracy)]]_vars

\* C15 witness: the first call, with the accuracy at the lower end of the
\* band, has left the initial threshold and a set defensive flag as they were.
TuningAtBandEndKeeps ==
    /\ client.sent = 1
    /\ probe.invoked
    /\ inMemorySharedStats.longTermGlobalAccuracy = TARGET_ACCURACY - AccuracyBand
    /\ systemState.BAD_TREND_THRESHOLD = InitialThreshold
    /\ systemState.DEFENSIVE_MODE_ACTIVE

(***************************************************************************)
(* Properties of a cycle of the core.                                      *)
(***************************************************************************)
\* C17: a cycle that fails the minimum-history gate leaves the weights, the
\* system parameters with the defensive flag, the sentiment events, the
\* history and the shared stats as they were when the core was called,
\* which is as the handler had set them up for the call.
GateFailureChangesNothing ==
    [][(probe'.invoked /\ ~probe'.gatePassed) =>
          /\ mlFeatureWeights' = mlFeatureWeights
          /\ systemState' = systemState
          /\ marketEvents' = marketEvents
          /\ inMemoryHistory' =
                insertRecord(resolvedHistory(App, lastProcessedPeriod',
                                             inMemoryHistory'[1].actualNumber),
                             newRecord(lastProcessedPeriod',
                                       inMemoryHistory'[1].actualNumber))
          /\ inMemorySharedStats' =
                statsPassedBack(App, lastProcessedPeriod',
                                inMemoryHistory'[1].actualNumber)]_vars

\* C17 witness: a cycle has failed the gate with 99 records in the history
\* and the result of the last cycle passed to it.
GateFailedOneShort ==
    /\ probe.invoked
    /\ ~probe.gatePassed
    /\ Len(inMemoryHistory) = MIN_HISTORY - 1
    /\ inMemorySharedStats.lastActualOutcome # Absent
    /\ inMemoryCurrentPrediction.systemHealth = "INSUFFICIENT_HISTORY"

\* C18: whenever the core scores the previous prediction as Win or Loss,
\* it compares the class of the outcome of the round that has just resolved
\* with the class predicted for that round in the preceding cycle, also
\* when the rounds submitted skip numbers.
ScoresRoundAgainstItsPrediction ==
    [][(/\ probe'.invoked
        /\ probe'.gatePassed
        /\ inMemoryCurrentPrediction'.systemHealth \in {"OK", "DEFENSIVE_MODE"}
        /\ inMemorySharedStats'.status \in {"Win", "Loss"}) =>
          /\ inMemoryCurrentPrediction.period = lastProcessedPeriod'
          /\ inMemorySharedStats'.status = "Win"
                <=> getBigSmallFromNumber(inMemoryHistory'[1].actualNumber)
                       = inMemoryCurrentPrediction.prediction]_vars

(***************************************************************************)
(* Properties of the advisors.                                             *)
(***************************************************************************)
\* The votes kept in the shared stats that equal the decision.
agreeingVotes ==
    {i \in 1..Len(inMemorySharedStats.advisorySignals) :
        inMemorySharedStats.advisorySignals[i] = inMemorySharedStats.finalDecision}

\* C19: the consensus score the confidence is composed from is the number
\* of votes equal to the primary class over the number of votes, and 1/2
\* when no advisor votes; abstentions are not votes, and
\* 0 <= agreeingModels <= totalAdvisors <= 6.
ConsensusIsShareOfVotes ==
    PipelineCompleted =>
        /\ \A i \in 1..Len(inMemorySharedStats.advisorySignals) :
              inMemorySharedStats.advisorySignals[i] \in Classes
        /\ inMemorySharedStats.finalDecision = primaryOfCycle.prediction
        /\ inMemorySharedStats.totalAdvisors = Len(inMemorySharedStats.advisorySignals)
        /\ inMemorySharedStats.agreeingModels = Cardinality(agreeingVotes)
        /\ 0 <= inMemorySharedStats.agreeingModels
        /\ inMemorySharedStats.agreeingModels <= inMemorySharedStats.totalAdvisors
        /\ inMemorySharedStats.totalAdvisors <= 6
        /\ inMemorySharedStats.finalConfidence =
              composeConfidence(primaryOfCycle,
                                IF inMemorySharedStats.totalAdvisors = 0
                                THEN consensusAt(1, 2)
                                ELSE consensusAt(Cardinality(agreeingVotes),
                                                 Len(inMemorySharedStats.advisorySignals)),
                                systemState.DEFENSIVE_MODE_ACTIVE)

\* C19 witness: a decision was composed when no advisor voted.
ComposedWithoutVotes ==
    /\ PipelineCompleted
    /\ inMemorySharedStats.advisorySignals = <<>>
    /\ inMemorySharedStats.totalAdvisors = 0
    /\ inMemorySharedStats.finalConfidence.num > 0

\* The n most recent outcomes of the history are all of the class.
streakOf(history, class, n) ==
    /\ Len(history) >= n
    /\ \A i \in 1..n : getBigSmallFromNumber(history[i].actual) = class

\* The vote the pattern rule asks for on a history of at least 5 outcomes
\* that ends with a streak of exactly 4 or of 5 of a class.
streakVoteAsked(history, class, other) ==
    IF streakOf(history, class, 5) THEN analyzeColorPatterns(history) = other
    ELSE streakOf(history, class, 4) => analyzeColorPatterns(history) = class

\* C20: on outcomes that end with exactly four BIG in a row the pattern
\* detector votes BIG, on five BIG in a row it votes SMALL, and
\* symmetrically SMALL on four SMALL and BIG on five SMALL.
PatternDetectorVotesOnStreaks ==
    Len(inMemoryHistory) >= 5 =>
        /\ streakVoteAsked(inMemoryHistory, "BIG", "SMALL")
        /\ streakVoteAsked(inMemoryHistory, "SMALL", "BIG")

\* The chronological sequence of the letters B and S of the 10 most recent
\* outcomes.
letterSequence(history) ==
    [i \in 1..Len(recentOutcomes(history)) |->
        IF recentOutcomes(history)[i] = "BIG" THEN "B" ELSE "S"]

\* C21: on at least 5 outcomes the pattern detector gives the vote of the
\* first rule of the table, in the listed order, whose pattern is a suffix
\* of the chronological letter sequence, and abstains when none matches or
\* fewer than 5 outcomes exist.
PatternDetectorFollowsRuleTable ==
    analyzeColorPatterns(inMemoryHistory)
        = IF Len(inMemoryHistory) < 5 THEN NoClass
          ELSE firstMatch(matchingRules(letterSequence(inMemoryHistory)))

(***************************************************************************)
(* Properties of the primary model.                                        *)
(***************************************************************************)
\* The BIG and SMALL accumulators of the features kept, under the weights.
bigKept == bigScoreOf(mlFeatureWeights, inMemorySharedStats.mlFeatures.values)

smallKept == smallScoreOf(mlFeatureWeights, inMemorySharedStats.mlFeatures.values)

\* C22: the primary model abstains exactly when the BIG and SMALL
\* accumulators sum to 0; otherwise it predicts the class whose accumulator
\* is larger, with a confidence |BIG - SMALL| / (BIG + SMALL) in [0, 1].
PrimaryPredictsLargerAccumulator ==
    probe.invoked =>
        IF bigKept + smallKept = 0
        THEN inMemorySharedStats.finalDecision = NoClass
        ELSE /\ \/ inMemorySharedStats.finalDecision = "BIG" /\ bigKept > smallKept
                \/ inMemorySharedStats.finalDecision = "SMALL" /\ smallKept > bigKept
             /\ inMemorySharedStats.finalConfidence.num = Abs(bigKept - smallKept)
             /\ inMemorySharedStats.finalConfidence.den = bigKept + smallKept
             /\ 0 <= inMemorySharedStats.finalConfidence.num
             /\ inMemorySharedStats.finalConfidence.num
                   <= inMemorySharedStats.finalConfidence.den

(***************************************************************************)
(* Properties of the sentiment simulator.                                  *)
(***************************************************************************)
\* The events of the collection that the call did not create.
survivorsOf(events) ==
    LET old(e) == e.decays > 0
    IN  SelectSeq(events, old)

\* The events as they were one call earlier.
beforeDecay(events) ==
    [i \in 1..Len(events) |-> [events[i] EXCEPT !.decays = events[i].decays - 1]]

\* The events of the collection that a decay leaves above 0.05.
lastingOf(events) ==
    LET lasting(e) == decayedImpact(e.decays + 1) > 50000
    IN  SelectSeq(events, lasting)

\* C23: after every updateMarketSentiment call every surviving event has
\* |impact| > 0.05 and is an event of before the call decayed once, the call
\* has added at most one event, of impact +1 or -1; every event is dropped
\* within MaxDecays + 1 calls, so the collection holds at most that many
\* events plus one; and the sentiment factor is in [-1, 1], 0 without
\* events.
SentimentDecaysAndStaysBounded ==
    /\ [](\A i \in 1..Len(marketEvents) :
             /\ Abs(impactOf(marketEvents[i])) > 50000
             /\ marketEvents[i].decays <= MaxDecays
             /\ \A j \in 1..Len(marketEvents) :
                   i < j => marketEvents[i].decays > marketEvents[j].decays)
    /\ [](Len(marketEvents) <= MaxDecays + 1)
    /\ [](/\ getMarketSentimentFactor(marketEvents) >= -1000000
          /\ getMarketSentimentFactor(marketEvents) <= 1000000
          /\ marketEvents = <<>> => getMarketSentimentFactor(marketEvents) = 0)
    /\ [][client'.sent # client.sent =>
             /\ beforeDecay(survivorsOf(marketEvents')) = lastingOf(marketEvents)
             /\ Len(marketEvents') <= Len(survivorsOf(marketEvents')) + 1
             /\ \A i \in 1..Len(marketEvents') :
                   marketEvents'[i].decays = 0
                      => Abs(impactOf(marketEvents'[i])) = 1000000]_vars

\* C23 witness: after a call the collection holds an event at its last
\* significant impact, an event the call has created, and the factor is
\* clamped at 1.
OldestEventStillSignificant ==
    /\ probe.invoked
    /\ client.sent > 0
    /\ Len(marketEvents) >= 2
    /\ marketEvents[1].decays = MaxDecays
    /\ marketEvents[Len(marketEvents)].decays = 0
    /\ getMarketSentimentFactor(marketEvents) = 1000000

(***************************************************************************)
(* Properties of the feature extractor.                                    *)
(***************************************************************************)
\* The features are those the rule gives for the indicators ind.
featuresAsRuled(features, ind) ==
    /\ features.present
    /\ features.values["rsi_strength"] = (ind.rsi - 50) * 2
    /\ features.values["rsi_is_overbought"] = (IF ind.rsi > 70 THEN 100 ELSE 0)
    /\ features.values["rsi_is_oversold"] = (IF ind.rsi < 30 THEN -100 ELSE 0)
    /\ features.values["macd_hist"] = ind.macdLine - ind.signalLine

\* C24: whenever the RSI is available, at any value from 0 to 100,
\* rsi_strength is (RSI - 50) / 50, rsi_is_overbought is 1 exactly when
\* RSI > 70 and rsi_is_oversold is -1 exactly when RSI < 30, and macd_hist
\* is the MACD line less the signal line.
FeaturesFollowIndicators ==
    [][(client'.sent # client.sent /\ Len(inMemoryHistory) >= MIN_HISTORY) =>
          \E ind \in IndicatorChoices, rsi \in rsiValuesOf(numbersOf(inMemoryHistory)) :
              featuresAsRuled(inMemorySharedStats'.mlFeatures,
                              [ind EXCEPT !.rsi = rsi])]_vars

FailedRequestChangesNothing ==
    [][response'.code = 500 =>
          /\ inMemoryHistory' = inMemoryHistory
          /\ lastProcessedPeriod' = lastProcessedPeriod
          /\ inMemorySharedStats' = inMemorySharedStats
          /\ inMemoryCurrentPrediction' = inMemoryCurrentPrediction]_vars

\* C28: when every fetch returns or fails, a request that has passed the
\* in-flight guard leads to the flag being false again, so the service does
\* not stay where every request is answered 429.
FlagEventuallyCleared ==
    /\ isProcessingPrediction ~> ~isProcessingPrediction
    /\ \A c \in Clients : inflight[c] = "fetching" ~> inflight[c] = "idle"

\* C28 witness: after a completed cycle a request has ended with a 500
\* error and the flag is false.
FlagClearAfterError ==
    /\ response.code = 500
    /\ ~isProcessingPrediction
    /\ Fetching = {}
    /\ inMemoryHistory # <<>>

\* C29: a request whose round is the round processed last (the requests
\* with a round that leave lastProcessedPeriod as it is) does not invoke the
\* core, changes nothing of the history, the shared stats, the weights, the
\* parameters, the events and the stored prediction, and answers 200 with
\* the stored prediction; so does every repetition of it.
RepeatedRoundIsIdempotent ==
    [][(/\ client'.sent # client.sent
        /\ response'.code # 400
        /\ lastProcessedPeriod' = lastProcessedPeriod) =>
          /\ ~probe'.invoked
          /\ response'.code = 200
          /\ response'.currentPrediction = inMemoryCurrentPrediction
          /\ UNCHANGED <<inMemoryHistory, inMemorySharedStats,
                         inMemoryCurrentPrediction, systemState, mlFeatureWeights,
                         marketEvents>>]_vars

\* C29 witness: the second of two requests in a row has been answered as
\* already processed, with the prediction of a completed pipeline cycle.
RepeatAnsweredFromStore ==
    /\ response.message = "Period already processed."
    /\ client.free = 0
    /\ Len(inMemoryHistory) >= MIN_HISTORY
    /\ response.currentPrediction = inMemoryCurrentPrediction
    /\ inMemoryCurrentPrediction.systemHealth = "OK"

\* C30: in every state between requests in which a prediction is stored,
\* the first record of the history is that of the round processed last and
\* the stored prediction is for the round after it.
PredictionIsForNextRound ==
    inMemoryCurrentPrediction # NoPrediction =>
        /\ inMemoryHistory # <<>>
        /\ inMemoryHistory[1].period = lastProcessedPeriod
        /\ inMemoryCurrentPrediction.period = lastProcessedPeriod + 1

(***************************************************************************)
(* Independence of the decision from the sentiment simulator.              *)
(***************************************************************************)
\* What a call of the core leaves and returns, the sentiment events aside.
asideFromEvents(ai) ==
    [decision |-> ai.decision, shared |-> ai.shared,
     systemState |-> ai.core.systemState,
     mlFeatureWeights |-> ai.core.mlFeatureWeights]

\* The call of the core on the history and shared stats of the state, with
\* the sentiment events replaced.
coreCallWith(events, coin, ind, news) ==
    asideFromEvents(ultraAIPredict([systemState |-> systemState,
                                    mlFeatureWeights |-> mlFeatureWeights,
                                    marketEvents |-> events],
                                   inMemoryHistory, inMemorySharedStats,
                                   coin, ind, news))

\* Sentiment events other than those of the state, each with a draw of
\* updateMarketSentiment: none, a fresh negative one, and an old positive
\* one with a young negative one.
OtherSentiment ==
    {<< <<>>, "PositiveNews" >>,
     << <<[type |-> "NegativeNews", decays |-> 0]>>, "NegativeNews" >>,
     << <<[type |-> "PositiveNews", decays |-> MaxDecays],
          [type |-> "NegativeNews", decays |-> 1]>>, "none" >>}

\* C31: a call of the core returns the same decision (class, confidence,
\* level, health) and leaves the same shared stats, weights and system
\* parameters with the defensive flag, whatever the sentiment events are
\* and whatever news updateMarketSentiment draws (the coin of a random
\* fallback being the same).
DecisionIgnoresSentiment ==
    \A ind \in IndicatorChoices :
        Cardinality({coreCallWith(s[1], "BIG", ind, s[2]) :
                        s \in OtherSentiment \cup {<<marketEvents, "none">>}}) = 1

\* C31 witness: a pipeline decision was made in a cycle in which
\* updateMarketSentiment drew a news event, so the sentiment factor of the
\* cycle was not zero.
DecidedWithSentiment ==
    /\ PipelineCompleted
    /\ probe.ranBlock
    /\ marketEvents # <<>>
    /\ getMarketSentimentFactor(marketEvents) # 0

(***************************************************************************)
(* Abstention of the primary model.                                        *)
(***************************************************************************)
\* C32: the primary model never abstains on a history that passes the
\* gate, so a cycle that passes the gate never answers with health
\* MODEL_UNCERTAIN and leaves the decision it returned in the shared stats.
GatePassingCycleDecides ==
    probe.invoked /\ probe.gatePassed /\ response.code = 200
        => /\ response.currentPrediction.systemHealth # "MODEL_UNCERTAIN"
           /\ inMemorySharedStats.finalDecision = response.currentPrediction.prediction
           /\ inMemorySharedStats.systemHealth = response.currentPrediction.systemHealth

=============================================================================
